---- MODULE Spec2Model ----
(***************************************************************************)
(* SmartSortierer: the suggestion engines and the file lifecycle of the    *)
(* two services of the repository,                                         *)
(*   DP = DocumentProcessor        (NAS/document_organizer.py)             *)
(*   SO = SimpleDocumentOrganizer  (NAS/minimal_organizer.py)              *)
(* Confidences are kept in hundredths (0.85 is 85).  A text is a sequence  *)
(* of one-character strings; the characters outside ASCII carry an ASCII   *)
(* name ("uuml", "Uuml", "euro").                                          *)
(***************************************************************************)
EXTENDS Integers, Sequences, FiniteSets, TLC

VARIABLES
    target_folders,  \* self.target_folders: the cached, sorted folder names
    text_content,    \* the preview text handed to the suggestion engine
    llm_reply,       \* outcome of the folder-choice completion call
    llm_reply2,      \* outcome of the folder-creation completion call (SO)
    phase,           \* position of the suggestion call
    impl,            \* which service runs: "DP" or "SO"
    result,          \* the list the suggestion call returned
    inbox,           \* <root>/inbox: file name -> content
    dirs,            \* the directories under <root>/ablage, as paths from it
    files,           \* the files under <root>/ablage: <<dir, name>> -> content
    now,             \* the clock, in seconds
    events,          \* creation notifications the watcher has not handled yet
    arrived,         \* how many files have been put into the inbox
    pending_files,   \* DP: the pending registry, file name -> entry
    learning_data,   \* DP: decisions and folder_keywords, in memory
    learning_file,   \* DP: processed/learning_data.json
    response,        \* the answer to the last request of the human-facing boundary
    watcher,         \* DP: where the watcher thread stands in on_created
    request,         \* DP: where the request thread stands in api_move_file
    listing          \* what the last listing of the pending files showed

suggestVars == <<text_content, llm_reply, llm_reply2, phase, result>>

fsVars == <<inbox, dirs, files>>

dpVars == <<pending_files, learning_data, learning_file>>

threadVars == <<watcher, request>>

lifecycleVars == <<inbox, dirs, files, now, events, arrived, pending_files,
                   learning_data, learning_file, response, watcher, request, listing>>

vars == <<target_folders, text_content, llm_reply, llm_reply2, phase, impl, result,
          inbox, dirs, files, now, events, arrived, pending_files, learning_data,
          learning_file, response, watcher, request, listing>>

\* the watcher thread waits for a notification
WatcherIdle ==
    [pc |-> "idle", name |-> <<>>, last_size |-> -1, polls |-> 0, prev_poll |-> -1,
     text_content |-> <<>>, suggestions |-> <<>>]

\* no request is being handled
RequestIdle ==
    [pc |-> "idle", filename |-> <<>>, target_folder |-> <<>>, new_path |-> <<>>]

\* no listing has been shown since the last arrival or confirmation
NoListing == [fresh |-> FALSE, files |-> <<>>]

-----------------------------------------------------------------------------
(* Generic helpers                                                         *)

Range(s) == {s[i] : i \in 1..Len(s)}

Min(a, b) == IF a <= b THEN a ELSE b

Max(a, b) == IF a >= b THEN a ELSE b

\* s[:n]
Take(s, n) == SubSeq(s, 1, Min(n, Len(s)))

\* str.lower() on one character
UpperChars ==
    <<"A","B","C","D","E","F","G","H","I","J","K","L","M","N","O","P","Q","R",
      "S","T","U","V","W","X","Y","Z","Uuml">>

LowerChars ==
    <<"a","b","c","d","e","f","g","h","i","j","k","l","m","n","o","p","q","r",
      "s","t","u","v","w","x","y","z","uuml">>

LowerChar(c) ==
    IF \E i \in 1..Len(UpperChars) : UpperChars[i] = c
    THEN LowerChars[CHOOSE i \in 1..Len(UpperChars) : UpperChars[i] = c]
    ELSE c

\* text_content.lower()
Lower(text) == [i \in 1..Len(text) |-> LowerChar(text[i])]

\* word in text  (substring test)
Contains(word, text) ==
    \E i \in 1..(Len(text) - Len(word) + 1) :
        SubSeq(text, i, i + Len(word) - 1) = word

\* sum(1 for word in words if word in text_lower)
Hits(words, text_lower) ==
    Cardinality({i \in 1..Len(words) : Contains(words[i], text_lower)})

-----------------------------------------------------------------------------
(* Folder names.  NameOrder lists every folder name of the model in the    *)
(* order of Python's string comparison, which sorted() uses.               *)

NameOrder ==
    <<".cache", "Arbeit", "Auto", "Bank", "Neu", "Rechnungen", "Sonstiges",
      "Steuer", "Travel", "Vertraege">>

\* sorted(folders)
SortedNames(S) == SelectSeq(NameOrder, LAMBDA n : n \in S)

\* _get_target_folders over the names of the directories directly under ablage
GetTargetFolders(dirnames) ==
    SortedNames({n \in dirnames : n \in Range(NameOrder) /\ n \notin {".cache"}})

-----------------------------------------------------------------------------
(* Suggestions                                                             *)

\* a suggestion for an existing folder: no is_new key, no folder_path key
Sugg(folder, reason, confidence) ==
    [folder |-> folder, folder_path |-> "", reason |-> reason,
     confidence |-> confidence, is_new |-> FALSE]

\* a suggestion for a folder to create
NewSugg(display, path, reason, confidence) ==
    [folder |-> display, folder_path |-> path, reason |-> reason,
     confidence |-> confidence, is_new |-> TRUE]

\* [s['folder'] for s in suggestions]
FolderList(suggestions) == {suggestions[i].folder : i \in 1..Len(suggestions)}

\* list.sort(key=confidence, reverse=True): stable, descending
RECURSIVE InsertByConfidence(_, _)
InsertByConfidence(x, s) ==
    IF s = <<>> THEN <<x>>
    ELSE IF Head(s).confidence >= x.confidence
         THEN <<Head(s)>> \o InsertByConfidence(x, Tail(s))
         ELSE <<x>> \o s

RECURSIVE SortByConfidence(_)
SortByConfidence(s) ==
    IF s = <<>> THEN <<>>
    ELSE InsertByConfidence(s[Len(s)], SortByConfidence(SubSeq(s, 1, Len(s) - 1)))

\* sorted(scores.items(), key=score, reverse=True): stable, descending
RECURSIVE InsertByScore(_, _)
InsertByScore(x, s) ==
    IF s = <<>> THEN <<x>>
    ELSE IF Head(s).score >= x.score
         THEN <<Head(s)>> \o InsertByScore(x, Tail(s))
         ELSE <<x>> \o s

RECURSIVE SortByScore(_)
SortByScore(s) ==
    IF s = <<>> THEN <<>>
    ELSE InsertByScore(s[Len(s)], SortByScore(SubSeq(s, 1, Len(s) - 1)))

-----------------------------------------------------------------------------
(* Keyword classifier of DP: _fallback_suggestions                         *)

DP_keywords ==
    << [folder |-> "Rechnungen", words |-> <<
            <<"r","e","c","h","n","u","n","g">>,
            <<"i","n","v","o","i","c","e">>,
            <<"b","e","t","r","a","g">>,
            <<"e","u","r">>,
            <<"euro">>,
            <<"u","s","t","i","d">>,
            <<"m","w","s","t">> >>],
       [folder |-> "Bank", words |-> <<
            <<"i","b","a","n">>,
            <<"b","i","c">>,
            <<"uuml","b","e","r","w","e","i","s","u","n","g">>,
            <<"k","o","n","t","o">>,
            <<"b","a","n","k">> >>],
       [folder |-> "Vertraege", words |-> <<
            <<"v","e","r","t","r","a","g">>,
            <<"c","o","n","t","r","a","c","t">>,
            <<"v","e","r","e","i","n","b","a","r","u","n","g">>,
            <<"b","e","d","i","n","g","u","n","g","e","n">> >>],
       [folder |-> "Auto", words |-> <<
            <<"k","f","z">>,
            <<"a","u","t","o">>,
            <<"f","a","h","r","z","e","u","g">>,
            <<"v","e","r","s","i","c","h","e","r","u","n","g">>,
            <<"w","e","r","k","s","t","a","t","t">> >>],
       [folder |-> "Arbeit", words |-> <<
            <<"a","r","b","e","i","t">>,
            <<"g","e","h","a","l","t">>,
            <<"f","i","r","m","a">>,
            <<"u","n","t","e","r","n","e","h","m","e","n">>,
            <<"j","o","b">> >>] >>

\* the scores dict: table folders that are target folders and have a hit,
\* in table order
Scores(keywords, tf, text_lower) ==
    LET all == [i \in 1..Len(keywords) |->
                   [folder |-> keywords[i].folder,
                    score  |-> Hits(keywords[i].words, text_lower)]]
    IN SelectSeq(all, LAMBDA e : e.folder \in Range(tf) /\ e.score > 0)

\* the fill loop: Sonstiges first, then the first remaining folder, at 0.1
RECURSIVE FallbackFill(_, _)
FallbackFill(tf, suggestions) ==
    IF Len(suggestions) >= 3 THEN suggestions
    ELSE LET remaining == SelectSeq(tf, LAMBDA f : f \notin FolderList(suggestions))
         IN IF "Sonstiges" \in Range(remaining)
            THEN FallbackFill(tf, Append(suggestions,
                     Sugg("Sonstiges", "Standard-Fallback", 10)))
            ELSE IF remaining # <<>>
            THEN FallbackFill(tf, Append(suggestions,
                     Sugg(remaining[1], "Automatische Zuordnung", 10)))
            ELSE suggestions

\* min(0.7, score * 0.2) for the two best scores
DP_top(sorted_folders) ==
    [i \in 1..Min(2, Len(sorted_folders)) |->
        Sugg(sorted_folders[i].folder, "Schluesselwoerter gefunden",
             Min(70, sorted_folders[i].score * 20))]

DP_fallback_suggestions(tf, text) ==
    FallbackFill(tf, DP_top(SortByScore(Scores(DP_keywords, tf, Lower(text)))))

-----------------------------------------------------------------------------
(* The completion capability.  A reply is                                  *)
(*   [kind |-> "unreachable"]  the request raised (refused, timeout)       *)
(*   [kind |-> "status"]       an HTTP status other than 200               *)
(*   [kind |-> "ok"]           status 200 with the response text `body`    *)
(* The response text is a sequence of tokens: a code fence, the word       *)
(* json, text that is no JSON ("junk"), or the text of one JSON value.     *)
(* A JSON value is an array of items or a value of another kind; an item   *)
(* is an object with some of the keys folder, subfolder, reason,           *)
(* confidence, or a value that is no object.                               *)

NoConf == [k |-> "absent", n |-> 0]

\* a JSON number c/100
Num(c) == [k |-> "num", n |-> c]

\* a JSON string that float() cannot read
BadStr == [k |-> "badstr", n |-> 0]

Obj(has_folder, folder, subfolder, has_reason, conf) ==
    [dict |-> TRUE, has_folder |-> has_folder, folder |-> folder,
     subfolder |-> subfolder, has_reason |-> has_reason, conf |-> conf]

NonDict == [Obj(FALSE, "", "", FALSE, NoConf) EXCEPT !.dict = FALSE]

\* {"folder": f, "reason": ..., "confidence": conf}
Item(folder, conf) == Obj(TRUE, folder, "", TRUE, conf)

Arr(items) == [k |-> "arr", items |-> items]

Scalar(kind) == [k |-> kind, items |-> <<>>]

Fence == [t |-> "fence", v |-> Scalar("null")]

JsonWord == [t |-> "json", v |-> Scalar("null")]

Junk == [t |-> "junk", v |-> Scalar("null")]

Val(v) == [t |-> "val", v |-> v]

Unreachable == [kind |-> "unreachable", body |-> <<>>]

BadStatus == [kind |-> "status", body |-> <<>>]

Ok(body) == [kind |-> "ok", body |-> body]

HasFence(b) == \E i \in 1..Len(b) : b[i].t = "fence"

FirstFence(b) == CHOOSE i \in 1..Len(b) : b[i].t = "fence" /\ \A j \in 1..(i - 1) : b[j].t # "fence"

\* response.split('```')[1]
SplitPart1(b) ==
    LET rest == SubSeq(b, FirstFence(b) + 1, Len(b))
    IN IF HasFence(rest) THEN SubSeq(rest, 1, FirstFence(rest) - 1) ELSE rest

\* the fence handling in front of json.loads
StripFences(b) ==
    IF HasFence(b)
    THEN LET part == SplitPart1(b)
         IN IF part # <<>> /\ part[1].t = "json" THEN Tail(part) ELSE part
    ELSE b

\* json.loads(text.strip()) returns a value
JsonLoads_ok(b) == Len(b) = 1 /\ b[1].t = "val"

JsonLoads(b) == b[1].v

\* float(x) returns a number
Float_ok(conf) == conf.k \in {"num", "numstr"}

-----------------------------------------------------------------------------
(* DP: _parse_llm_response and get_folder_suggestions                      *)

\* max(0.0, min(1.0, confidence))
Clamp(c) == Max(0, Min(100, c))

\* the item passes the format check and names a target folder
DP_item_valid(tf, item) ==
    /\ item.dict
    /\ item.has_folder /\ item.has_reason /\ item.conf.k # "absent"
    /\ item.folder \in Range(tf)

\* float(item['confidence']), 0.0 when it raises; then clamped
DP_confidence(item) == Clamp(IF Float_ok(item.conf) THEN item.conf.n ELSE 0)

DP_valid_suggestions(tf, items) ==
    LET kept == SelectSeq(items, LAMBDA item : DP_item_valid(tf, item))
    IN [i \in 1..Len(kept) |-> Sugg(kept[i].folder, "llm", DP_confidence(kept[i]))]

\* the loop that makes sure there are 3: the first remaining folder at 0.1
RECURSIVE DP_pad(_, _)
DP_pad(tf, valid_suggestions) ==
    IF Len(valid_suggestions) >= 3 THEN valid_suggestions
    ELSE LET remaining_folders ==
                 SelectSeq(tf, LAMBDA f : f \notin FolderList(valid_suggestions))
         IN IF remaining_folders = <<>> THEN valid_suggestions
            ELSE DP_pad(tf, Append(valid_suggestions,
                     Sugg(remaining_folders[1], "Allgemeine Zuordnung", 10)))

DP_parse_llm_response(tf, llm_response) ==
    LET stripped == StripFences(llm_response)
    IN IF ~JsonLoads_ok(stripped) \/ JsonLoads(stripped).k # "arr"
       THEN DP_fallback_suggestions(tf, <<>>)
       ELSE Take(DP_pad(tf, SortByConfidence(
                DP_valid_suggestions(tf, JsonLoads(stripped).items))), 3)

DP_no_targets ==
    [i \in 1..3 |-> Sugg("Sonstiges", "Keine Zielordner gefunden", 10)]

DP_get_folder_suggestions(tf, text, reply) ==
    IF tf = <<>> THEN DP_no_targets
    ELSE IF reply.kind = "ok" THEN DP_parse_llm_response(tf, reply.body)
    ELSE DP_fallback_suggestions(tf, text)

-----------------------------------------------------------------------------
(* SO: get_folder_suggestions_llm, get_fallback_suggestions,               *)
(* get_folder_creation_suggestions, get_default_creation_suggestions       *)

SO_keywords ==
    << [folder |-> "Rechnungen", words |-> <<
            <<"r","e","c","h","n","u","n","g">>,
            <<"i","n","v","o","i","c","e">>,
            <<"b","e","t","r","a","g">>,
            <<"e","u","r">>,
            <<"euro">>,
            <<"m","w","s","t">>,
            <<"u","s","t">> >>],
       [folder |-> "Bank", words |-> <<
            <<"i","b","a","n">>,
            <<"b","i","c">>,
            <<"uuml","b","e","r","w","e","i","s","u","n","g">>,
            <<"k","o","n","t","o">>,
            <<"b","a","n","k">>,
            <<"s","p","a","r","k","a","s","s","e">> >>],
       [folder |-> "Vertraege", words |-> <<
            <<"v","e","r","t","r","a","g">>,
            <<"c","o","n","t","r","a","c","t">>,
            <<"v","e","r","e","i","n","b","a","r","u","n","g">>,
            <<"b","e","d","i","n","g","u","n","g","e","n">> >>],
       [folder |-> "Auto", words |-> <<
            <<"k","f","z">>,
            <<"a","u","t","o">>,
            <<"f","a","h","r","z","e","u","g">>,
            <<"v","e","r","s","i","c","h","e","r","u","n","g">>,
            <<"w","e","r","k","s","t","a","t","t">>,
            <<"t","uuml","v">> >>],
       [folder |-> "Arbeit", words |-> <<
            <<"a","r","b","e","i","t">>,
            <<"g","e","h","a","l","t">>,
            <<"f","i","r","m","a">>,
            <<"u","n","t","e","r","n","e","h","m","e","n">>,
            <<"j","o","b">>,
            <<"l","o","h","n">> >>] >>

\* the words get_default_creation_suggestions looks for
InvoiceWords ==
    << <<"r","e","c","h","n","u","n","g">>, <<"i","n","v","o","i","c","e">>,
       <<"b","e","t","r","a","g">>, <<"e","u","r">>, <<"euro">> >>

ContractWords ==
    << <<"v","e","r","t","r","a","g">>, <<"c","o","n","t","r","a","c","t">>,
       <<"v","e","r","e","i","n","b","a","r","u","n","g">> >>

\* any(word in text_lower for word in words)
AnyWord(words, text_lower) == \E i \in 1..Len(words) : Contains(words[i], text_lower)

SO_get_default_creation_suggestions(text) ==
    LET text_lower == Lower(text)
        invoice == IF AnyWord(InvoiceWords, text_lower)
                   THEN <<NewSugg("[dir] Neue Rechnungen", "Neue Rechnungen",
                                  "Rechnungsinhalt erkannt", 80)>>
                   ELSE <<>>
        contract == IF AnyWord(ContractWords, text_lower)
                    THEN <<NewSugg("[dir] Vertraege / Neue Kategorie",
                                   "Vertraege/Neue Kategorie",
                                   "Vertragsinhalt erkannt", 70)>>
                    ELSE <<>>
        suggestions == invoice \o contract
        remaining ==
            <<NewSugg("[dir] Dokumente / Neue Kategorie", "Dokumente/Neue Kategorie",
                      "Allgemeine Dokumentenablage", 50),
              NewSugg("[dir] Temporaer / Zu Sortieren", "Temporaer/Zu Sortieren",
                      "Temporaere Ablage", 40)>>
    IN Take(IF Len(suggestions) < 3
            THEN suggestions \o Take(remaining, 3 - Len(suggestions))
            ELSE suggestions, 3)

\* suggestions[:3] raises for a value that cannot be sliced
Sliceable(v) == v.k \in {"arr", "str"}

\* for item in suggestions[:3]: the characters of a string are no objects
FirstItems(v) == IF v.k = "arr" THEN Take(v.items, 3) ELSE <<>>

\* one entry of creation_suggestions
SO_creation_entry(item) ==
    IF item.subfolder # ""
    THEN NewSugg("[dir] " \o item.folder \o " / " \o item.subfolder,
                 item.folder \o "/" \o item.subfolder, "llm",
                 IF item.conf.k = "absent" THEN 70 ELSE item.conf.n)
    ELSE NewSugg("[dir] " \o item.folder, item.folder, "llm",
                 IF item.conf.k = "absent" THEN 70 ELSE item.conf.n)

SO_get_folder_creation_suggestions(tf, text, reply) ==
    LET stripped == StripFences(reply.body)
        parsed == reply.kind = "ok" /\ JsonLoads_ok(stripped)
                    /\ Sliceable(JsonLoads(stripped))
        kept == SelectSeq(FirstItems(JsonLoads(stripped)),
                          LAMBDA item : item.dict /\ item.has_folder)
        raised == \E i \in 1..Len(kept) :
                      kept[i].conf.k # "absent" /\ ~Float_ok(kept[i].conf)
    IN IF ~parsed \/ raised
       THEN SO_get_default_creation_suggestions(text)
       ELSE [i \in 1..Len(kept) |-> SO_creation_entry(kept[i])]

\* min(0.8, score * 0.3) for the two best scores
SO_top(sorted_folders) ==
    [i \in 1..Min(2, Len(sorted_folders)) |->
        Sugg(sorted_folders[i].folder, "Schluesselwoerter erkannt",
             Min(80, sorted_folders[i].score * 30))]

\* the keyword-scored and filled list of get_fallback_suggestions
SO_fallback_list(tf, text) ==
    FallbackFill(tf, SO_top(SortByScore(Scores(SO_keywords, tf, Lower(text)))))

\* a gate that lets a list pass when one entry reaches the threshold
GoodEnough_one(suggestions, threshold) ==
    Cardinality({i \in 1..Len(suggestions) :
                    suggestions[i].confidence >= threshold}) >= 1

\* len([s for s in suggestions if s['confidence'] >= threshold]) >= 2
GoodEnough(suggestions, threshold) ==
    Cardinality({i \in 1..Len(suggestions) :
                    suggestions[i].confidence >= threshold}) >= 2

\* A call of SO either returns a list or goes on to ask for new folders.
Return(value) == [creation |-> FALSE, value |-> value]

AskCreation == [creation |-> TRUE, value |-> <<>>]

\* get_fallback_suggestions up to its return or its creation call
SO_fallback_step(tf, text) ==
    IF GoodEnough(SO_fallback_list(tf, text), 50)
    THEN Return(Take(SO_fallback_list(tf, text), 3))
    ELSE AskCreation

\* an entry of valid: float(item.get('confidence', 0.5)), not clamped
SO_valid_entry(item) ==
    Sugg(item.folder, "llm", IF item.conf.k = "absent" THEN 50 ELSE item.conf.n)

\* get_folder_suggestions_llm up to its return or its creation call
SO_llm_step(tf, text, reply) ==
    LET stripped == StripFences(reply.body)
        parsed == reply.kind = "ok" /\ JsonLoads_ok(stripped)
                    /\ Sliceable(JsonLoads(stripped))
        kept == SelectSeq(FirstItems(JsonLoads(stripped)),
                          LAMBDA item : item.dict /\ item.has_folder
                                          /\ item.folder \in Range(tf))
        raised == \E i \in 1..Len(kept) :
                      kept[i].conf.k # "absent" /\ ~Float_ok(kept[i].conf)
        valid == [i \in 1..Len(kept) |-> SO_valid_entry(kept[i])]
    IN IF ~parsed \/ raised THEN SO_fallback_step(tf, text)
       ELSE IF GoodEnough(valid, 60) THEN Return(valid)
       ELSE AskCreation

\* the whole call, given the replies to both completion requests
SO_get_folder_suggestions_llm(tf, text, reply, reply2) ==
    IF SO_llm_step(tf, text, reply).creation
    THEN SO_get_folder_creation_suggestions(tf, text, reply2)
    ELSE SO_llm_step(tf, text, reply).value

-----------------------------------------------------------------------------
(* Inputs of the suggestion engines                                        *)

\* longest array a completion reply carries
MaxItems == 3

\* directories under ablage when the service starts
SuggestDirs == {".cache", "Bank", "Rechnungen", "Sonstiges", "Steuer"}

TextEmpty ==
    <<>>

TextInvoice ==
    <<"R","e","c","h","n","u","n","g"," ","B","e","t","r","a","g"," ","1","2","0"," ","E","U","R"," ","M","w","S","t">>

TextTie ==
    <<"I","B","A","N"," ","R","e","c","h","n","u","n","g">>

TextTwoEach ==
    <<"K","o","n","t","o"," ","B","a","n","k"," ","R","e","c","h","n","u","n","g"," ","B","e","t","r","a","g">>

TextContract ==
    <<"U","r","l","a","u","b"," ","V","e","r","t","r","a","g">>

Texts == {TextEmpty, TextInvoice, TextTie, TextTwoEach, TextContract}

\* items of a folder-choice reply: a repeated folder, confidences outside
\* [0,1] and below the padding confidence, an unknown folder, a confidence
\* that is no number
ChoiceItems ==
    { Item("Bank", Num(90)), Item("Rechnungen", Num(150)), Item("Sonstiges", Num(5)),
      Item("Steuer", Num(-50)), Item("Hallu", Num(90)), Item("Rechnungen", BadStr) }

\* arrays with an object that lacks reason, and with a value that is no object
OddArrays ==
    { Arr(<<Obj(TRUE, "Steuer", "", FALSE, Num(70)), Item("Bank", Num(90))>>),
      Arr(<<NonDict, Item("Bank", Num(90)), Item("Steuer", Num(70))>>),
      Arr(<<Obj(TRUE, "Bank", "", TRUE, NoConf), Item("Steuer", Num(70)),
            Item("Rechnungen", Num(60)), Item("Sonstiges", Num(95))>>) }

\* arrays of a folder-creation reply
CreationArrays ==
    { Arr(<<Obj(TRUE, "Reisen", "Fluege", TRUE, Num(80)),
            Obj(TRUE, "Reisen", "", TRUE, Num(120)),
            Obj(TRUE, "Belege", "", FALSE, NoConf),
            Obj(TRUE, "Garten", "", TRUE, Num(30))>>),
      Arr(<<Obj(TRUE, "Reisen", "Fluege", TRUE, Num(80))>>),
      Arr(<<NonDict, Obj(TRUE, "Belege", "", TRUE, Num(60))>>),
      Arr(<<Obj(TRUE, "Belege", "Alt", TRUE, BadStr)>>),
      Arr(<<>>) }

SeqsUpTo(S, n) == UNION {[1..k -> S] : k \in 0..n}

\* response texts that are not a bare JSON array
OddBodies ==
    { <<>>, <<Junk>>, <<JsonWord, Val(Arr(<<Item("Bank", Num(90))>>))>>,
      <<Val(Scalar("obj"))>>, <<Val(Scalar("num"))>>, <<Val(Scalar("str"))>>,
      <<Val(Scalar("null"))>>,
      <<Val(Arr(<<Item("Bank", Num(90))>>)), Fence>>,
      <<Fence, Junk, Fence>> }

\* a JSON array inside code fences
Fenced(v) ==
    { <<Fence, JsonWord, Val(v), Fence>>, <<Junk, Fence, Val(v), Fence, Junk>>,
      <<Fence, Val(v)>> }

FencedArrays ==
    { Arr(<<Item("Bank", Num(90)), Item("Rechnungen", Num(150))>>),
      Arr(<<Item("Hallu", Num(90))>>) }

ChoiceReplies ==
    {Unreachable, BadStatus}
      \cup {Ok(<<Val(Arr(a))>>) : a \in SeqsUpTo(ChoiceItems, MaxItems)}
      \cup {Ok(<<Val(v)>>) : v \in OddArrays}
      \cup {Ok(b) : b \in OddBodies}
      \cup {Ok(b) : b \in UNION {Fenced(v) : v \in FencedArrays}}

CreationReplies ==
    {Unreachable, BadStatus}
      \cup {Ok(<<Val(v)>>) : v \in CreationArrays}
      \cup {Ok(<<Junk>>), Ok(<<Val(Scalar("str"))>>), Ok(<<Val(Scalar("obj"))>>)}
      \cup {Ok(<<Fence, JsonWord, Val(Arr(<<Obj(TRUE, "Reisen", "", TRUE, Num(70))>>)), Fence>>)}

NoReply == [kind |-> "none", body |-> <<>>]

-----------------------------------------------------------------------------
(* The suggestion call as a state machine: the folder set and the preview  *)
(* text are fixed when the call starts; every completion request is one    *)
(* step, taken together with the code that runs up to the next request or  *)
(* the return.                                                              *)

InitSuggest ==
    /\ \E S \in SUBSET SuggestDirs :
          /\ dirs = {<<>>} \cup {<<n>> : n \in S}
          /\ target_folders = GetTargetFolders(S)
    /\ inbox = <<>>
    /\ files = <<>>
    /\ now = 1
    /\ events = <<>>
    /\ arrived = 0
    /\ pending_files = <<>>
    /\ learning_data = [decisions |-> <<>>, folder_keywords |-> <<>>]
    /\ learning_file = [decisions |-> <<>>, folder_keywords |-> <<>>]
    /\ response = [status |-> 0, success |-> FALSE, error |-> "", new_path |-> <<>>]
    /\ watcher = WatcherIdle
    /\ request = RequestIdle
    /\ listing = NoListing
    /\ text_content \in Texts
    /\ llm_reply = NoReply
    /\ llm_reply2 = NoReply
    /\ phase = "ready"
    /\ impl = "none"
    /\ result = <<>>

\* DocumentProcessor.get_folder_suggestions; without target folders it
\* returns before any completion request
DP_Suggest ==
    /\ phase = "ready"
    /\ \E reply \in IF target_folders = <<>> THEN {NoReply} ELSE ChoiceReplies :
          /\ llm_reply' = reply
          /\ result' = DP_get_folder_suggestions(target_folders, text_content, reply)
    /\ impl' = "DP"
    /\ phase' = "returned"
    /\ UNCHANGED <<target_folders, text_content, llm_reply2>>
    /\ UNCHANGED lifecycleVars

\* SimpleDocumentOrganizer.get_folder_suggestions_llm: the folder-choice
\* request and what follows it
SO_Suggest ==
    /\ phase = "ready"
    /\ \E reply \in ChoiceReplies :
          /\ llm_reply' = reply
          /\ result' = SO_llm_step(target_folders, text_content, reply).value
          /\ phase' = IF SO_llm_step(target_folders, text_content, reply).creation
                      THEN "creating" ELSE "returned"
    /\ impl' = "SO"
    /\ UNCHANGED <<target_folders, text_content, llm_reply2>>
    /\ UNCHANGED lifecycleVars

\* SimpleDocumentOrganizer.get_folder_creation_suggestions: the
\* folder-creation request and what follows it
SO_Create ==
    /\ phase = "creating"
    /\ \E reply \in CreationReplies :
          /\ llm_reply2' = reply
          /\ result' = SO_get_folder_creation_suggestions(target_folders, text_content, reply)
    /\ phase' = "returned"
    /\ UNCHANGED <<target_folders, text_content, llm_reply, impl>>
    /\ UNCHANGED lifecycleVars

NextSuggest == DP_Suggest \/ SO_Suggest \/ SO_Create

SpecSuggest == InitSuggest /\ [][NextSuggest]_vars

\* the calls of SO alone, over a choice of the target folder sets: none, one
\* folder of the keyword table, two, two with Sonstiges, all
GateFolders ==
    {GetTargetFolders(S) : S \in {{}, {"Bank"}, {"Bank", "Rechnungen"},
                                  {"Bank", "Rechnungen", "Sonstiges"}, SuggestDirs}}

InitGate ==
    /\ InitSuggest
    /\ target_folders \in GateFolders
    /\ dirs = {<<>>} \cup {<<n>> : n \in Range(target_folders)}

NextGate == SO_Suggest \/ SO_Create

SpecGate == InitGate /\ [][NextGate]_vars

-----------------------------------------------------------------------------
(* File names and paths.  A file name is a sequence of characters; a       *)
(* directory under ablage is the sequence of the folder names leading to   *)
(* it, <<>> being ablage itself.  A dict is a function on its keys.        *)

EmptyDict == <<>>

\* d[k] = v
Put(d, k, v) == [x \in DOMAIN d \cup {k} |-> IF x = k THEN v ELSE d[x]]

\* del d[k]
Del(d, k) == [x \in DOMAIN d \ {k} |-> d[x]]

LastIndexOf(s, c) ==
    IF c \in Range(s)
    THEN CHOOSE i \in 1..Len(s) : s[i] = c /\ \A j \in (i + 1)..Len(s) : s[j] # c
    ELSE 0

FirstIndexOf(s, c) ==
    CHOOSE i \in 1..Len(s) : s[i] = c /\ \A j \in 1..(i - 1) : s[j] # c

\* PurePath.suffix: from the last dot, unless the dot leads or ends the name
Suffix(name) ==
    LET i == LastIndexOf(name, ".")
    IN IF 1 < i /\ i < Len(name) THEN SubSeq(name, i, Len(name)) ELSE <<>>

\* PurePath.stem
Stem(name) == SubSeq(name, 1, Len(name) - Len(Suffix(name)))

\* name.startswith('.') or name.startswith('~')
IsTemporaryName(name) == name # <<>> /\ name[1] \in {".", "~"}

\* datetime.now().strftime("%Y%m%d_%H%M%S"): one token per clock second
Timestamp(clock) == <<"@" \o ToString(clock)>>

\* DP: f"{stem}_{timestamp}{suffix}"
DP_stamped_name(name, clock) == Stem(name) \o <<"_">> \o Timestamp(clock) \o Suffix(name)

\* SO: filename.rsplit('.', 1), then f"{name}_{timestamp}.{ext}" or f"{name}_{timestamp}"
SO_stamped_name(filename, clock) ==
    LET i == LastIndexOf(filename, ".")
        name == IF i > 0 THEN SubSeq(filename, 1, i - 1) ELSE filename
        ext == IF i > 0 THEN SubSeq(filename, i + 1, Len(filename)) ELSE <<>>
    IN IF ext # <<>>
       THEN name \o <<"_">> \o Timestamp(clock) \o <<".">> \o ext
       ELSE name \o <<"_">> \o Timestamp(clock)

\* the directories a path runs through, itself included
Ancestors(path) == {SubSeq(path, 1, k) : k \in 0..Len(path)}

Parent(path) == SubSeq(path, 1, Len(path) - 1)

\* Path.mkdir(exist_ok=True) raises when the parent is missing
Mkdir_ok(ds, path) == path \in ds \/ Parent(path) \in ds

\* Path.mkdir(parents=True, exist_ok=True)
MkdirParents(ds, path) == ds \cup Ancestors(path)

\* the names of the directories directly under ablage
TopLevelNames(ds) == {path[1] : path \in {q \in ds : Len(q) = 1}}

\* shutil.move(src, dst) of a file of the inbox: dst is overwritten
MovedFiles(fs, dir, dst, content) == Put(fs, <<dir, dst>>, content)

-----------------------------------------------------------------------------
(* DP: the learning store                                                  *)

\* self.learning_data['decisions'][-100:]
LogCap == 100

\* the length the preview of a pending entry is cut to
PreviewCap == 300

\* str.replace(pat, '')
RECURSIVE Remove(_, _)
Remove(s, pat) ==
    IF Len(s) < Len(pat) THEN s
    ELSE IF SubSeq(s, 1, Len(pat)) = pat
         THEN Remove(SubSeq(s, Len(pat) + 1, Len(s)), pat)
         ELSE <<Head(s)>> \o Remove(Tail(s), pat)

\* str.split(sep)
RECURSIVE Split(_, _)
Split(s, sep) ==
    IF sep \notin Range(s) THEN <<s>>
    ELSE <<SubSeq(s, 1, FirstIndexOf(s, sep) - 1)>>
             \o Split(SubSeq(s, FirstIndexOf(s, sep) + 1, Len(s)), sep)

\* filename.lower().replace('.pdf', '').replace('.docx', '').split('_')
FilenameKeywords(filename) ==
    Split(Remove(Remove(Lower(filename), <<".","p","d","f">>),
                 <<".","d","o","c","x">>), "_")

\* the loop that appends the new keywords longer than 3 characters
RECURSIVE AddKeywords(_, _)
AddKeywords(known, keywords) ==
    IF keywords = <<>> THEN known
    ELSE AddKeywords(IF Len(Head(keywords)) > 3 /\ Head(keywords) \notin Range(known)
                     THEN Append(known, Head(keywords)) ELSE known,
                     Tail(keywords))

\* s[:n], the n oldest entries instead of the n latest
LastN_oldest(s, n) == SubSeq(s, 1, Min(Len(s), n))

\* s[-n:]
LastN(s, n) == SubSeq(s, Max(1, Len(s) - n + 1), Len(s))

\* _update_learning_data with the keywords of the folder replaced by those of
\* the file instead of extended by them
DP_update_learning_data_replace(ld, filename, chosen_folder, clock) ==
    [decisions |-> LastN(Append(ld.decisions,
                          [timestamp |-> clock, filename |-> filename,
                           folder |-> chosen_folder]), LogCap),
     folder_keywords |-> Put(ld.folder_keywords, chosen_folder,
                             AddKeywords(<<>>, FilenameKeywords(filename)))]

\* _update_learning_data up to the save
DP_update_learning_data(ld, filename, chosen_folder, clock) ==
    LET known == IF chosen_folder \in DOMAIN ld.folder_keywords
                 THEN ld.folder_keywords[chosen_folder] ELSE <<>>
    IN [decisions |-> LastN(Append(ld.decisions,
                          [timestamp |-> clock, filename |-> filename,
                           folder |-> chosen_folder]), LogCap),
        folder_keywords |-> Put(ld.folder_keywords, chosen_folder,
                                AddKeywords(known, FilenameKeywords(filename)))]

NoLearning == [decisions |-> <<>>, folder_keywords |-> EmptyDict]

-----------------------------------------------------------------------------
(* Responses of the human-facing boundary                                  *)

(* `error` is the message of an error response: the text of the handler   *)
(* or of the exception ("mkdir": mkdir raised, "move": shutil.move raised, *)
(* "save": writing the learning store raised).                             *)

NoResponse ==
    [status |-> 0, success |-> FALSE, error |-> "", new_path |-> <<>>]

Error(status, error) ==
    [status |-> status, success |-> FALSE, error |-> error, new_path |-> <<>>]

Success(dir, name) ==
    [status |-> 200, success |-> TRUE, error |-> "", new_path |-> <<dir, name>>]

-----------------------------------------------------------------------------
(* DP: extract_text, the watcher and api_move_file                         *)

\* the length extract_text cuts a text to
TextCap == 2000

\* a text with characters other than white space
NotBlank(text) == \E i \in 1..Len(text) : text[i] # " "

\* extract_text: `content` is the text of the file, `extraction` tells
\* whether reading it worked ("read") or raised ("error")
DP_extract_text(name, content, extraction) ==
    LET suffix == Lower(Suffix(name))
        failed == <<"Dateiname: ">> \o name \o <<"\nFehler beim Lesen: ">>
    IN IF suffix \in {<<".","p","d","f">>, <<".","d","o","c","x">>}
       THEN IF extraction = "error" THEN failed
            ELSE IF NotBlank(content) THEN Take(content, TextCap)
            ELSE <<"Datei: ">> \o name
       ELSE IF suffix = <<".","d","o","c">>
       THEN <<"DOC-Datei: ">> \o name \o <<"\nHinweis">>
       ELSE IF suffix \in {<<".","t","x","t">>, <<".","m","d">>}
       THEN IF extraction = "error" THEN failed ELSE Take(content, TextCap)
       ELSE <<"Dateiname: ">> \o name \o <<"\nDateityp: ">> \o Suffix(name)

\* text_content[:300] + "..." if len(text_content) > 300 else text_content
Preview(text) ==
    IF Len(text) > PreviewCap THEN Take(text, PreviewCap) \o <<"...">> ELSE text

\* wait_for_file_ready for a file that is written in one piece and is not
\* empty: two polls agree as soon as the file exists, and a missing file
\* runs into the timeout
DP_wait_for_file_ready(name) == name \in DOMAIN inbox

\* the entry process_new_file puts into pending_files
DP_pending_entry(name, content, extraction, reply) ==
    [path |-> name,
     suggestions |-> DP_get_folder_suggestions(target_folders,
                         DP_extract_text(name, content, extraction), reply),
     text_preview |-> Preview(DP_extract_text(name, content, extraction)),
     timestamp |-> now]

\* InboxHandler.on_created with process_new_file, for the oldest notification
DP_on_created(extraction, reply) ==
    /\ impl = "DP"
    /\ events # <<>>
    /\ events' = Tail(events)
    /\ IF DP_wait_for_file_ready(Head(events)) /\ ~IsTemporaryName(Head(events))
       THEN pending_files' = Put(pending_files, Head(events),
                DP_pending_entry(Head(events), inbox[Head(events)], extraction, reply))
       ELSE UNCHANGED pending_files
    /\ UNCHANGED <<target_folders, impl, inbox, dirs, files, now, arrived,
                   learning_data, learning_file, response>>
    /\ UNCHANGED suggestVars
    /\ UNCHANGED threadVars
    /\ listing' = NoListing

\* target_folder in processor.target_folders: a folder name, never a path
DP_is_target(target_folder) ==
    Len(target_folder) = 1 /\ target_folder[1] \in Range(target_folders)

\* move_file: the name the file gets in the target directory
DP_target_file(target_dir, name) ==
    IF <<target_dir, name>> \in DOMAIN files THEN DP_stamped_name(name, now) ELSE name

\* api_move_file with the pending entry removed before the move is tried
DP_api_move_file_del_first(filename, target_folder, io) ==
    /\ impl = "DP"
    /\ IF filename \notin DOMAIN pending_files
       THEN /\ response' = Error(404, "Datei nicht gefunden")
            /\ UNCHANGED <<inbox, dirs, files, pending_files, learning_data, learning_file>>
       ELSE IF ~DP_is_target(target_folder)
       THEN /\ response' = Error(400, "Ungueltiger Zielordner")
            /\ UNCHANGED <<inbox, dirs, files, pending_files, learning_data, learning_file>>
       ELSE IF ~Mkdir_ok(dirs, target_folder)
       THEN /\ response' = Error(500, "mkdir")
            /\ pending_files' = Del(pending_files, filename)
            /\ UNCHANGED <<inbox, dirs, files, learning_data, learning_file>>
       ELSE IF pending_files[filename].path \notin DOMAIN inbox \/ io = "move_fails"
       THEN /\ response' = Error(500, "move")
            /\ dirs' = dirs \cup {target_folder}
            /\ pending_files' = Del(pending_files, filename)
            /\ UNCHANGED <<inbox, files, learning_data, learning_file>>
       ELSE /\ dirs' = dirs \cup {target_folder}
            /\ files' = MovedFiles(files, target_folder,
                            DP_target_file(target_folder, filename), inbox[filename])
            /\ inbox' = Del(inbox, filename)
            /\ learning_data' = DP_update_learning_data(learning_data, filename,
                                    target_folder[1], now)
            /\ pending_files' = Del(pending_files, filename)
            /\ IF io = "save_fails"
               THEN /\ response' = Error(500, "save")
                    /\ UNCHANGED learning_file
               ELSE /\ learning_file' = learning_data'
                    /\ response' = Success(target_folder,
                                       DP_target_file(target_folder, filename))
    /\ UNCHANGED <<target_folders, impl, now, events, arrived>>
    /\ UNCHANGED suggestVars
    /\ UNCHANGED threadVars
    /\ listing' = NoListing

\* api_move_file.  `io` is what the file system does: "ok", "move_fails"
\* (shutil.move raises) or "save_fails" (writing learning_data.json raises)
DP_api_move_file(filename, target_folder, io) ==
    /\ impl = "DP"
    /\ IF filename \notin DOMAIN pending_files
       THEN /\ response' = Error(404, "Datei nicht gefunden")
            /\ UNCHANGED <<inbox, dirs, files, pending_files, learning_data, learning_file>>
       ELSE IF ~DP_is_target(target_folder)
       THEN /\ response' = Error(400, "Ungueltiger Zielordner")
            /\ UNCHANGED <<inbox, dirs, files, pending_files, learning_data, learning_file>>
       ELSE IF ~Mkdir_ok(dirs, target_folder)
       THEN /\ response' = Error(500, "mkdir")
            /\ UNCHANGED <<inbox, dirs, files, pending_files, learning_data, learning_file>>
       ELSE IF pending_files[filename].path \notin DOMAIN inbox \/ io = "move_fails"
       THEN /\ response' = Error(500, "move")
            /\ dirs' = dirs \cup {target_folder}
            /\ UNCHANGED <<inbox, files, pending_files, learning_data, learning_file>>
       ELSE /\ dirs' = dirs \cup {target_folder}
            /\ files' = MovedFiles(files, target_folder,
                            DP_target_file(target_folder, filename), inbox[filename])
            /\ inbox' = Del(inbox, filename)
            /\ learning_data' = DP_update_learning_data(learning_data, filename,
                                    target_folder[1], now)
            /\ IF io = "save_fails"
               THEN /\ response' = Error(500, "save")
                    /\ UNCHANGED <<pending_files, learning_file>>
               ELSE /\ learning_file' = learning_data'
                    /\ pending_files' = Del(pending_files, filename)
                    /\ response' = Success(target_folder,
                                       DP_target_file(target_folder, filename))
    /\ UNCHANGED <<target_folders, impl, now, events, arrived>>
    /\ UNCHANGED suggestVars
    /\ UNCHANGED threadVars
    /\ listing' = NoListing

-----------------------------------------------------------------------------
(* SO: move_file and the handlers of POST /api/move and POST /move         *)

\* move_file: the name the file gets in the target directory
SO_target_file(target_dir, filename) ==
    IF <<target_dir, filename>> \in DOMAIN files
    THEN SO_stamped_name(filename, now) ELSE filename

\* move_file and the response the handler builds from its return or from
\* the exception.  `io` is "ok", or "move_fails" when shutil.move raises.
SO_move_file(filename, target_folder, is_new_folder, io) ==
    /\ dirs' = MkdirParents(dirs, target_folder)
    /\ target_folders' = IF is_new_folder
                         THEN GetTargetFolders(TopLevelNames(dirs'))
                         ELSE target_folders
    /\ IF filename \notin DOMAIN inbox \/ io = "move_fails"
       THEN /\ response' = Error(500, "move")
            /\ UNCHANGED <<inbox, files>>
       ELSE /\ files' = MovedFiles(files, target_folder,
                            SO_target_file(target_folder, filename), inbox[filename])
            /\ inbox' = Del(inbox, filename)
            /\ response' = Success(target_folder,
                               SO_target_file(target_folder, filename))

\* str(folder_data).replace(marker, ''): a folder sent with the cabinet
\* marker in front of its name loses it
StripMarker(folder_data) == folder_data.path

\* do_POST, path /api/move: folder_data is {is_new, folder_path} or a string
SO_api_move(filename, folder_data, io) ==
    /\ impl = "SO"
    /\ IF folder_data.is_new
       THEN SO_move_file(filename, folder_data.path, TRUE, io)
       ELSE SO_move_file(filename, StripMarker(folder_data), FALSE, io)
    /\ UNCHANGED <<impl, now, events, arrived>>
    /\ UNCHANGED dpVars
    /\ UNCHANGED suggestVars
    /\ UNCHANGED threadVars
    /\ listing' = NoListing

\* do_POST, path /move: the form fields filename and folder
SO_move(filename, folder, io) ==
    /\ impl = "SO"
    /\ SO_move_file(filename, folder, FALSE, io)
    /\ UNCHANGED <<impl, now, events, arrived>>
    /\ UNCHANGED dpVars
    /\ UNCHANGED suggestVars
    /\ UNCHANGED threadVars
    /\ listing' = NoListing

-----------------------------------------------------------------------------
(* The file lifecycle: the inbox, the clock and the two services           *)

\* files put into the inbox during a run
MaxArrivals == 2

\* the last clock second of a run
MaxClock == 2

NameA == <<"a",".","t","x","t">>

NameB == <<"B","a","n","k","_","M","a","i",".","p","d","f">>

Filenames == {NameA, NameB}

\* what the files of a run hold, in the order of their arrival
Contents == <<TextInvoice, TextTie>>

ContentOf(k) == Contents[((k - 1) % Len(Contents)) + 1]

\* the folder sets ablage starts with
InitialDirSets == {{}, {".cache", "Bank", "Sonstiges"}}

\* the folders a confirmation names
TargetFolders == {<<"Bank">>, <<"Neu">>, <<"Travel", "Flights">>}

\* folder_data of POST /api/move
FolderData ==
    [is_new : BOOLEAN, marker : {FALSE}, path : TargetFolders]
      \cup [is_new : {FALSE}, marker : {TRUE}, path : {<<"Bank">>}]

\* replies to the completion request of the watcher
WatchReplies == {Unreachable, Ok(<<Val(Arr(<<Item("Bank", Num(90))>>))>>)}

InitLifecycle ==
    /\ impl \in {"DP", "SO"}
    /\ \E S \in InitialDirSets :
          /\ dirs \in {{<<>>} \cup {<<n>> : n \in S}}
                        \cup (IF impl = "SO" /\ S = {} THEN {{}} ELSE {})
          /\ target_folders = GetTargetFolders(S)
    /\ inbox = EmptyDict
    /\ files = EmptyDict
    /\ now = 1
    /\ events = <<>>
    /\ arrived = 0
    /\ pending_files = EmptyDict
    /\ learning_data = NoLearning
    /\ learning_file = NoLearning
    /\ response = NoResponse
    /\ watcher = WatcherIdle
    /\ request = RequestIdle
    /\ listing = NoListing
    /\ text_content = <<>>
    /\ llm_reply = NoReply
    /\ llm_reply2 = NoReply
    /\ phase = "ready"
    /\ result = <<>>

\* a file is written into the inbox; the watcher of DP is notified
FileArrives(name) ==
    /\ arrived < MaxArrivals
    /\ name \notin DOMAIN inbox
    /\ inbox' = Put(inbox, name, ContentOf(arrived + 1))
    /\ arrived' = arrived + 1
    /\ events' = IF impl = "DP" THEN Append(events, name) ELSE events
    /\ UNCHANGED <<target_folders, impl, dirs, files, now, response>>
    /\ UNCHANGED dpVars
    /\ UNCHANGED suggestVars
    /\ UNCHANGED threadVars
    /\ listing' = NoListing

\* a second passes
Tick ==
    /\ now < MaxClock
    /\ now' = now + 1
    /\ UNCHANGED <<target_folders, impl, inbox, dirs, files, events, arrived, response>>
    /\ UNCHANGED dpVars
    /\ UNCHANGED suggestVars
    /\ UNCHANGED threadVars
    /\ UNCHANGED listing

NextLifecycle ==
    \/ \E name \in Filenames : FileArrives(name)
    \/ Tick
    \/ \E extraction \in {"read", "error"} :
       \E reply \in IF extraction = "error" THEN {Unreachable} ELSE WatchReplies :
          DP_on_created(extraction, reply)
    \/ \E filename \in Filenames, target_folder \in TargetFolders,
          io \in {"ok", "move_fails", "save_fails"} :
          DP_api_move_file(filename, target_folder, io)
    \/ \E filename \in Filenames, folder_data \in FolderData,
          io \in {"ok", "move_fails"} :
          SO_api_move(filename, folder_data, io)
    \/ \E filename \in Filenames, folder \in TargetFolders, io \in {"ok", "move_fails"} :
          SO_move(filename, folder, io)

SpecLifecycle == InitLifecycle /\ [][NextLifecycle]_vars

-----------------------------------------------------------------------------
(* Moves into one folder: files of the same name, moved one after another  *)

\* a file that an earlier run left in ablage/Bank
OldFile == <<<<"Bank">>, NameA>> :> TextContract

InitMoves ==
    /\ impl \in {"DP", "SO"}
    /\ dirs = {<<>>, <<"Bank">>}
    /\ target_folders = GetTargetFolders({"Bank"})
    /\ files \in {EmptyDict, OldFile}
    /\ inbox = EmptyDict
    /\ now = 1
    /\ events = <<>>
    /\ arrived = 0
    /\ pending_files = EmptyDict
    /\ learning_data = NoLearning
    /\ learning_file = NoLearning
    /\ response = NoResponse
    /\ watcher = WatcherIdle
    /\ request = RequestIdle
    /\ listing = NoListing
    /\ text_content = <<>>
    /\ llm_reply = NoReply
    /\ llm_reply2 = NoReply
    /\ phase = "ready"
    /\ result = <<>>

NextMoves ==
    \/ \E name \in Filenames : FileArrives(name)
    \/ Tick
    \/ DP_on_created("read", Unreachable)
    \/ \E filename \in Filenames : DP_api_move_file(filename, <<"Bank">>, "ok")
    \/ \E filename \in Filenames : SO_move(filename, <<"Bank">>, "ok")

SpecMoves == InitMoves /\ [][NextMoves]_vars

-----------------------------------------------------------------------------
(* The learning store of DP over a long run of decisions                   *)

\* the decisions of a run
MaxCalls == 102

\* the first decisions of a run, whose file and folder are free
FreeCalls == 2

DecisionFolders == {"Bank", "Steuer"}

InitLearning ==
    /\ impl = "DP"
    /\ dirs = {<<>>, <<"Bank">>, <<"Steuer">>}
    /\ target_folders = GetTargetFolders(DecisionFolders)
    /\ files = EmptyDict
    /\ inbox = EmptyDict
    /\ now = 1
    /\ events = <<>>
    /\ arrived = 0
    /\ pending_files = EmptyDict
    /\ learning_data = NoLearning
    /\ learning_file = NoLearning
    /\ response = NoResponse
    /\ watcher = WatcherIdle
    /\ request = RequestIdle
    /\ listing = NoListing
    /\ text_content = <<>>
    /\ llm_reply = NoReply
    /\ llm_reply2 = NoReply
    /\ phase = "ready"
    /\ result = <<>>

\* _update_learning_data with _save_learning_data.  The k-th decision of a
\* run is taken in second k; the decisions after the first ones and up to
\* the cap of the log repeat one decision, which fills the log.
RecordDecision(filename, chosen_folder, io) ==
    /\ impl = "DP"
    /\ now <= MaxCalls
    /\ \/ now <= FreeCalls
       \/ now > LogCap
       \/ filename = NameA /\ chosen_folder = "Bank" /\ io = "ok"
    /\ learning_data' = DP_update_learning_data(learning_data, filename, chosen_folder, now)
    /\ learning_file' = IF io = "ok" THEN learning_data' ELSE learning_file
    /\ now' = now + 1
    /\ UNCHANGED <<target_folders, impl, inbox, dirs, files, events, arrived,
                   pending_files, response, listing>>
    /\ UNCHANGED suggestVars
    /\ UNCHANGED threadVars

NextLearning ==
    \E filename \in Filenames, chosen_folder \in DecisionFolders, io \in {"ok", "save_fails"} :
        RecordDecision(filename, chosen_folder, io)

SpecLearning == InitLearning /\ [][NextLearning]_vars

-----------------------------------------------------------------------------
(* The listing of the pending files                                        *)

\* the length SO.extract_text cuts a text to
SO_TextCap == 1000

\* the length of the preview in the listing of SO
SO_PreviewCap == 200

\* SimpleDocumentOrganizer.extract_text
SO_extract_text(name, content, extraction) ==
    IF Lower(Suffix(name)) \in {<<".","t","x","t">>, <<".","m","d">>}
    THEN IF extraction = "error"
         THEN <<"Dateiname: ">> \o name \o <<"\nFehler: ">>
         ELSE Take(content, SO_TextCap)
    ELSE <<"Dateiname: ">> \o name \o <<"\nDateityp: ">> \o Suffix(name)

\* text[:200] + "..." if len(text) > 200 else text
SO_preview(text) ==
    IF Len(text) > SO_PreviewCap THEN Take(text, SO_PreviewCap) \o <<"...">> ELSE text

\* the files of the inbox the listing of SO shows
SO_listed == {name \in DOMAIN inbox : name[1] # "."}

\* the dictionary do_GET builds for the path '/': text and suggestions are
\* computed anew for every file, replies[name] being the replies of the
\* completion service to the requests made for that file
SO_pending_files(replies) ==
    [name \in SO_listed |->
        [text_preview |-> SO_preview(SO_extract_text(name, inbox[name], "read")),
         suggestions |-> SO_get_folder_suggestions_llm(target_folders,
                             SO_extract_text(name, inbox[name], "read"),
                             replies[name][1], replies[name][2])]]

\* the replies of the completion service while a listing is built
ListReplies ==
    {<<Unreachable, Unreachable>>,
     <<Ok(<<Val(Arr(<<Item("Bank", Num(90)), Item("Sonstiges", Num(70))>>))>>), NoReply>>}

\* the page of the pending files is requested: index of DP hands the
\* registry to the page, do_GET of SO builds the dictionary and puts it
\* into the page it holds itself
ListPending(replies) ==
    /\ listing' = [fresh |-> TRUE,
                   files |-> IF impl = "DP" THEN pending_files
                             ELSE SO_pending_files(replies)]
    /\ UNCHANGED <<target_folders, impl, inbox, dirs, files, now, events, arrived,
                   response>>
    /\ UNCHANGED dpVars
    /\ UNCHANGED suggestVars
    /\ UNCHANGED threadVars

NextListing ==
    \/ \E name \in Filenames : FileArrives(name)
    \/ Tick
    \/ \E reply \in WatchReplies : DP_on_created("read", reply)
    \/ \E replies \in [SO_listed -> ListReplies] : ListPending(replies)

SpecListing == InitLifecycle /\ [][NextListing]_vars

-----------------------------------------------------------------------------
(* DP: the watcher thread and a request thread, step by step.  The watcher  *)
(* is at "idle", "stabilizing" (in wait_for_file_ready), "ready" (about to  *)
(* call process_new_file) or "previewed" (text extracted, suggestions and   *)
(* the registry entry still to come); the request is at "idle", "moving"    *)
(* (both checks passed) or "deleting" (move_file returned).                 *)

\* polls wait_for_file_ready makes before its timeout (10 s / 0.2 s in the code)
MaxPolls == 3

\* on_created takes a notification and enters wait_for_file_ready
W_take ==
    /\ impl = "DP"
    /\ watcher.pc = "idle"
    /\ events # <<>>
    /\ events' = Tail(events)
    /\ watcher' = [WatcherIdle EXCEPT !.pc = "stabilizing", !.name = Head(events)]
    /\ UNCHANGED <<target_folders, impl, inbox, dirs, files, now, arrived, response,
                   request, listing>>
    /\ UNCHANGED dpVars
    /\ UNCHANGED suggestVars

\* wait_for_file_ready that goes on to process_new_file after its timeout
W_poll_proceeds ==
    /\ watcher.pc = "stabilizing"
    /\ watcher' =
          IF watcher.polls >= MaxPolls
          THEN [watcher EXCEPT !.pc = "ready"]
          ELSE IF watcher.name \notin DOMAIN inbox
          THEN [watcher EXCEPT !.polls = @ + 1, !.prev_poll = -1]
          ELSE IF Len(inbox[watcher.name]) = watcher.last_size /\ watcher.last_size > 0
          THEN [watcher EXCEPT !.pc = "ready"]
          ELSE [watcher EXCEPT !.polls = @ + 1, !.last_size = Len(inbox[watcher.name]),
                               !.prev_poll = Len(inbox[watcher.name])]
    /\ UNCHANGED <<target_folders, impl, inbox, dirs, files, now, events, arrived,
                   response, request, listing>>
    /\ UNCHANGED dpVars
    /\ UNCHANGED suggestVars

\* one round of the loop of wait_for_file_ready: stat the file, compare its
\* size with last_size.  prev_poll is what the round before has got from
\* stat: a size, or -1 when stat raised FileNotFoundError or there was no
\* round before; last_size is the variable of the code, which a round whose
\* stat raised leaves alone
W_poll ==
    /\ watcher.pc = "stabilizing"
    /\ watcher' =
          IF watcher.polls >= MaxPolls
          THEN WatcherIdle
          ELSE IF watcher.name \notin DOMAIN inbox
          THEN [watcher EXCEPT !.polls = @ + 1, !.prev_poll = -1]
          ELSE IF Len(inbox[watcher.name]) = watcher.last_size /\ watcher.last_size > 0
          THEN [watcher EXCEPT !.pc = "ready"]
          ELSE [watcher EXCEPT !.polls = @ + 1, !.last_size = Len(inbox[watcher.name]),
                               !.prev_poll = Len(inbox[watcher.name])]
    /\ UNCHANGED <<target_folders, impl, inbox, dirs, files, now, events, arrived,
                   response, request, listing>>
    /\ UNCHANGED dpVars
    /\ UNCHANGED suggestVars

\* process_new_file with an extraction that raises out of extract_text
W_extract_raises(extraction) ==
    /\ watcher.pc = "ready"
    /\ extraction = "error" \/ watcher.name \in DOMAIN inbox
    /\ watcher' =
          IF IsTemporaryName(watcher.name) \/ extraction = "error"
          THEN WatcherIdle
          ELSE [watcher EXCEPT
                   !.pc = "previewed",
                   !.text_content = DP_extract_text(watcher.name,
                                        inbox[watcher.name], extraction)]
    /\ UNCHANGED <<target_folders, impl, inbox, dirs, files, now, events, arrived,
                   response, request, listing>>
    /\ UNCHANGED dpVars
    /\ UNCHANGED suggestVars

\* process_new_file up to the return of extract_text; a file that is gone
\* cannot be read
W_extract(extraction) ==
    /\ watcher.pc = "ready"
    /\ extraction = "error" \/ watcher.name \in DOMAIN inbox
    /\ watcher' =
          IF IsTemporaryName(watcher.name)
          THEN WatcherIdle
          ELSE [watcher EXCEPT
                   !.pc = "previewed",
                   !.text_content =
                       DP_extract_text(watcher.name,
                           IF extraction = "error" THEN <<>> ELSE inbox[watcher.name],
                           extraction)]
    /\ UNCHANGED <<target_folders, impl, inbox, dirs, files, now, events, arrived,
                   response, request, listing>>
    /\ UNCHANGED dpVars
    /\ UNCHANGED suggestVars

\* process_new_file with a registry that is made anew for the entry
W_insert_alone(reply) ==
    /\ watcher.pc = "previewed"
    /\ pending_files' = Put(EmptyDict, watcher.name,
          [path |-> watcher.name,
           suggestions |-> DP_get_folder_suggestions(target_folders,
                               watcher.text_content, reply),
           text_preview |-> Preview(watcher.text_content),
           timestamp |-> now])
    /\ watcher' = WatcherIdle
    /\ UNCHANGED <<target_folders, impl, inbox, dirs, files, now, events, arrived,
                   response, request, listing, learning_data, learning_file>>
    /\ UNCHANGED suggestVars

\* process_new_file from get_folder_suggestions to the assignment to
\* pending_files
W_insert(reply) ==
    /\ watcher.pc = "previewed"
    /\ pending_files' = Put(pending_files, watcher.name,
          [path |-> watcher.name,
           suggestions |-> DP_get_folder_suggestions(target_folders,
                               watcher.text_content, reply),
           text_preview |-> Preview(watcher.text_content),
           timestamp |-> now])
    /\ watcher' = WatcherIdle
    /\ UNCHANGED <<target_folders, impl, inbox, dirs, files, now, events, arrived,
                   response, request, listing, learning_data, learning_file>>
    /\ UNCHANGED suggestVars

\* api_move_file: the two checks
R_begin(filename, target_folder) ==
    /\ impl = "DP"
    /\ request.pc = "idle"
    /\ IF filename \notin DOMAIN pending_files
       THEN response' = Error(404, "Datei nicht gefunden") /\ UNCHANGED request
       ELSE IF ~DP_is_target(target_folder)
       THEN response' = Error(400, "Ungueltiger Zielordner") /\ UNCHANGED request
       ELSE /\ request' = [RequestIdle EXCEPT !.pc = "moving", !.filename = filename,
                                              !.target_folder = target_folder]
            /\ response' = NoResponse
    /\ UNCHANGED <<target_folders, impl, inbox, dirs, files, now, events, arrived,
                   watcher, listing>>
    /\ UNCHANGED dpVars
    /\ UNCHANGED suggestVars

\* api_move_file: file_info = pending_files[filename] and move_file
R_move(io) ==
    /\ request.pc = "moving"
    /\ IF request.filename \notin DOMAIN pending_files
       THEN /\ response' = Error(500, "KeyError")
            /\ request' = RequestIdle
            /\ UNCHANGED <<inbox, dirs, files, learning_data, learning_file>>
       ELSE IF ~Mkdir_ok(dirs, request.target_folder)
       THEN /\ response' = Error(500, "mkdir")
            /\ request' = RequestIdle
            /\ UNCHANGED <<inbox, dirs, files, learning_data, learning_file>>
       ELSE IF pending_files[request.filename].path \notin DOMAIN inbox
               \/ io = "move_fails"
       THEN /\ response' = Error(500, "move")
            /\ request' = RequestIdle
            /\ dirs' = dirs \cup {request.target_folder}
            /\ UNCHANGED <<inbox, files, learning_data, learning_file>>
       ELSE /\ dirs' = dirs \cup {request.target_folder}
            /\ files' = MovedFiles(files, request.target_folder,
                            DP_target_file(request.target_folder, request.filename),
                            inbox[request.filename])
            /\ inbox' = Del(inbox, request.filename)
            /\ learning_data' = DP_update_learning_data(learning_data,
                                    request.filename, request.target_folder[1], now)
            /\ learning_file' = learning_data'
            /\ request' = [request EXCEPT
                              !.pc = "deleting",
                              !.new_path = DP_target_file(request.target_folder,
                                                          request.filename)]
            /\ UNCHANGED response
    /\ UNCHANGED <<target_folders, impl, now, events, arrived, pending_files,
                   watcher, listing>>
    /\ UNCHANGED suggestVars

\* api_move_file: del pending_files[filename] and the answer
R_delete ==
    /\ request.pc = "deleting"
    /\ IF request.filename \in DOMAIN pending_files
       THEN /\ pending_files' = Del(pending_files, request.filename)
            /\ response' = Success(request.target_folder, request.new_path)
       ELSE /\ response' = Error(500, "KeyError")
            /\ UNCHANGED pending_files
    /\ request' = RequestIdle
    /\ UNCHANGED <<target_folders, impl, inbox, dirs, files, now, events, arrived,
                   watcher, listing, learning_data, learning_file>>
    /\ UNCHANGED suggestVars

\* a name with the marker of a hidden file, one with the marker of a backup
NameHidden == <<".","a",".","t","x","t">>

NameBackup == <<"~","a",".","t","x","t">>

ThreadNames == {NameA, NameHidden, NameBackup}

InitThreads ==
    /\ impl = "DP"
    /\ dirs = {<<>>, <<"Bank">>}
    /\ target_folders = GetTargetFolders({"Bank"})
    /\ inbox = EmptyDict
    /\ files = EmptyDict
    /\ now = 1
    /\ events = <<>>
    /\ arrived = 0
    /\ pending_files = EmptyDict
    /\ learning_data = NoLearning
    /\ learning_file = NoLearning
    /\ response = NoResponse
    /\ watcher = WatcherIdle
    /\ request = RequestIdle
    /\ listing = NoListing
    /\ text_content = <<>>
    /\ llm_reply = NoReply
    /\ llm_reply2 = NoReply
    /\ phase = "ready"
    /\ result = <<>>

WatcherStep ==
    \/ W_take
    \/ W_poll
    \/ \E extraction \in {"read", "error"} : W_extract(extraction)
    \/ \E reply \in WatchReplies : W_insert(reply)

RequestStep ==
    \/ R_begin(NameA, <<"Bank">>)
    \/ \E io \in {"ok", "move_fails"} : R_move(io)
    \/ R_delete

NextThreads ==
    \/ \E name \in ThreadNames : FileArrives(name)
    \/ WatcherStep
    \/ RequestStep

SpecThreads == InitThreads /\ [][NextThreads]_vars

\* process_new_file gets to its end: the completion request has a timeout,
\* so the watcher leaves "previewed" for "idle"
W_returns == watcher.pc = "previewed" /\ watcher' = WatcherIdle

\* the watcher thread keeps running: every call it makes returns
SpecThreadsFair ==
    /\ SpecThreads
    /\ WF_vars(W_take \/ W_poll \/ \E extraction \in {"read", "error"} : W_extract(extraction))
    /\ WF_watcher(W_returns)

-----------------------------------------------------------------------------
(* DP: the registry over several arrivals and a restart of the service     *)

\* files written into the inbox in the runs of SpecRegistry
RegistryArrivals == 3

\* a file is written into the inbox, in place of the file of that name when
\* there is one (it was deleted and is created again); the watcher is notified
Arrives(name) ==
    /\ impl = "DP"
    /\ arrived < RegistryArrivals
    /\ inbox' = Put(inbox, name, ContentOf(arrived + 1))
    /\ arrived' = arrived + 1
    /\ events' = Append(events, name)
    /\ UNCHANGED <<target_folders, impl, dirs, files, now, response, listing>>
    /\ UNCHANGED dpVars
    /\ UNCHANGED suggestVars
    /\ UNCHANGED threadVars

\* the service is stopped and started again: pending_files and the
\* notifications not yet handled are gone, the learning store is read from
\* its file, the target folders from the directory, and the observer is
\* scheduled for the events to come
Restart ==
    /\ impl = "DP"
    /\ pending_files # EmptyDict \/ events # <<>> \/ watcher # WatcherIdle
    /\ pending_files' = EmptyDict
    /\ events' = <<>>
    /\ watcher' = WatcherIdle
    /\ request' = RequestIdle
    /\ response' = NoResponse
    /\ learning_data' = learning_file
    /\ target_folders' = GetTargetFolders(TopLevelNames(dirs))
    /\ UNCHANGED <<impl, inbox, dirs, files, now, arrived, learning_file, listing>>
    /\ UNCHANGED suggestVars

NextRegistry ==
    \/ \E name \in Filenames : Arrives(name)
    \/ WatcherStep

SpecRegistry == InitThreads /\ [][NextRegistry]_vars

\* the same with restarts, the watcher thread running on
SpecRestartFair ==
    /\ InitThreads
    /\ [][NextRegistry \/ Restart]_vars
    /\ WF_vars(W_take \/ W_poll \/ \E extraction \in {"read", "error"} : W_extract(extraction))
    /\ WF_watcher(W_returns)

-----------------------------------------------------------------------------
(* DP: wait_for_file_ready and a file that is being written                *)

\* the size a file grows to
MaxSize == 4

\* a writer creates the file, empty; the watcher is notified
FileCreated(name) ==
    /\ impl = "DP"
    /\ arrived < MaxArrivals
    /\ name \notin DOMAIN inbox
    /\ inbox' = Put(inbox, name, <<>>)
    /\ arrived' = arrived + 1
    /\ events' = Append(events, name)
    /\ UNCHANGED <<target_folders, impl, dirs, files, now, response, listing>>
    /\ UNCHANGED dpVars
    /\ UNCHANGED suggestVars
    /\ UNCHANGED threadVars

\* the writer appends to the file
FileGrows(name) ==
    /\ name \in DOMAIN inbox
    /\ Len(inbox[name]) < MaxSize
    /\ inbox' = Put(inbox, name, Append(inbox[name], "x"))
    /\ UNCHANGED <<target_folders, impl, dirs, files, now, events, arrived, response,
                   listing>>
    /\ UNCHANGED dpVars
    /\ UNCHANGED suggestVars
    /\ UNCHANGED threadVars

\* the file is deleted
FileRemoved(name) ==
    /\ name \in DOMAIN inbox
    /\ inbox' = Del(inbox, name)
    /\ UNCHANGED <<target_folders, impl, dirs, files, now, events, arrived, response,
                   listing>>
    /\ UNCHANGED dpVars
    /\ UNCHANGED suggestVars
    /\ UNCHANGED threadVars

NextWait ==
    \/ FileCreated(NameA)
    \/ FileGrows(NameA)
    \/ FileRemoved(NameA)
    \/ WatcherStep

SpecWait == InitThreads /\ [][NextWait]_vars

\* the loop of wait_for_file_ready runs on: stat and sleep return
SpecWaitFair == SpecWait /\ WF_vars(W_poll)


-----------------------------------------------------------------------------
(* The keyword classifiers called on their own: _fallback_suggestions of   *)
(* DP and get_fallback_suggestions of SO, over folder sets that hold three *)
(* folders of the keyword table                                            *)

KeywordDirs == {"Bank", "Rechnungen", "Sonstiges", "Vertraege"}

\* one hit for each of Bank, Rechnungen and Vertraege
TextThree ==
    <<"I","B","A","N"," ","R","e","c","h","n","u","n","g"," ","V","e","r","t","r","a","g">>

InitKeyword ==
    /\ \E S \in SUBSET KeywordDirs :
          /\ dirs = {<<>>} \cup {<<n>> : n \in S}
          /\ target_folders = GetTargetFolders(S)
    /\ inbox = <<>>
    /\ files = <<>>
    /\ now = 1
    /\ events = <<>>
    /\ arrived = 0
    /\ pending_files = <<>>
    /\ learning_data = [decisions |-> <<>>, folder_keywords |-> <<>>]
    /\ learning_file = [decisions |-> <<>>, folder_keywords |-> <<>>]
    /\ response = [status |-> 0, success |-> FALSE, error |-> "", new_path |-> <<>>]
    /\ watcher = WatcherIdle
    /\ request = RequestIdle
    /\ listing = NoListing
    /\ text_content \in Texts \cup {TextThree}
    /\ llm_reply = NoReply
    /\ llm_reply2 = NoReply
    /\ phase = "ready"
    /\ impl = "none"
    /\ result = <<>>

\* DocumentProcessor._fallback_suggestions(text_content)
DP_Classify ==
    /\ phase = "ready"
    /\ result' = DP_fallback_suggestions(target_folders, text_content)
    /\ impl' = "DP"
    /\ phase' = "returned"
    /\ UNCHANGED <<target_folders, text_content, llm_reply, llm_reply2>>
    /\ UNCHANGED lifecycleVars

\* SimpleDocumentOrganizer.get_fallback_suggestions(text_content) up to its
\* return or its folder-creation request
SO_Classify ==
    /\ phase = "ready"
    /\ result' = SO_fallback_step(target_folders, text_content).value
    /\ phase' = IF SO_fallback_step(target_folders, text_content).creation
                THEN "creating" ELSE "returned"
    /\ impl' = "SO"
    /\ UNCHANGED <<target_folders, text_content, llm_reply, llm_reply2>>
    /\ UNCHANGED lifecycleVars

NextKeyword == DP_Classify \/ SO_Classify \/ SO_Create

SpecKeyword == InitKeyword /\ [][NextKeyword]_vars


-----------------------------------------------------------------------------
(* The folder tree: the lifecycle together with create_folder of SO        *)

\* SimpleDocumentOrganizer.create_folder: mkdir with parents, then the
\* refresh of the cached folder list
SO_create_folder(folder_path) ==
    /\ impl = "SO"
    /\ dirs' = MkdirParents(dirs, folder_path)
    /\ target_folders' = GetTargetFolders(TopLevelNames(dirs'))
    /\ UNCHANGED <<impl, inbox, files, now, events, arrived, response, listing>>
    /\ UNCHANGED dpVars
    /\ UNCHANGED suggestVars
    /\ UNCHANGED threadVars

NextFolders ==
    \/ NextLifecycle
    \/ \E folder_path \in TargetFolders : SO_create_folder(folder_path)

SpecFolders == InitLifecycle /\ [][NextFolders]_vars

-----------------------------------------------------------------------------
(* Properties of the suggestion call, checked under SpecSuggest            *)

Returned == phase = "returned"

\* C1: with at least 3 target folders, the suggestion call returns exactly
\* 3 suggestions, whatever the preview text and the outcome of the
\* completion capability, in DP and in SO.
C1_ExactlyThree ==
    (Returned /\ Len(target_folders) >= 3) => Len(result) = 3

\* C2: every suggestion returned names a folder of the target folder set,
\* unless it is flagged is_new; for every folder set, the empty one included.
C2_FolderIsTarget ==
    Returned => \A i \in 1..Len(result) :
                    result[i].is_new \/ result[i].folder \in Range(target_folders)

\* C3: every suggestion returned has a confidence within [0,1], whatever
\* the confidences of the model response and whichever path produced it.
C3_ConfidenceInRange ==
    Returned => \A i \in 1..Len(result) :
                    0 <= result[i].confidence /\ result[i].confidence <= 100

\* C4: the list returned is sorted by non-increasing confidence, also after
\* padding entries at 0.1 have been appended to validated model items.
C4_SortedByConfidence ==
    Returned => \A i \in 1..(Len(result) - 1) :
                    result[i].confidence >= result[i + 1].confidence

\* C5: no two suggestions of one result that are not new name the same
\* folder, also when the model lists a folder twice or no target folder is
\* configured.
C5_NoDuplicateFolder ==
    Returned => \A i, j \in 1..Len(result) :
                    (i # j /\ ~result[i].is_new /\ ~result[j].is_new)
                        => result[i].folder # result[j].folder

\* the response text is malformed: no JSON, JSON inside code fences, a JSON
\* value that is no array, or an array that names an unknown folder
Malformed(reply) ==
    /\ reply.kind = "ok"
    /\ \/ HasFence(reply.body)
       \/ ~JsonLoads_ok(reply.body)
       \/ JsonLoads(reply.body).k # "arr"
       \/ \E i \in 1..Len(JsonLoads(reply.body).items) :
             /\ JsonLoads(reply.body).items[i].dict
             /\ JsonLoads(reply.body).items[i].has_folder
             /\ JsonLoads(reply.body).items[i].folder \notin Range(target_folders)

\* what the keyword classifier of the service returns for the preview text
\* and the folder set of the call
KeywordClassifierResult ==
    IF impl = "DP" THEN DP_fallback_suggestions(target_folders, text_content)
    ELSE IF SO_fallback_step(target_folders, text_content).creation
    THEN SO_get_folder_creation_suggestions(target_folders, text_content, llm_reply2)
    ELSE SO_fallback_step(target_folders, text_content).value

\* the folders, confidences and flags of a result, without the reason texts
Choices(suggestions) ==
    [i \in 1..Len(suggestions) |->
        <<suggestions[i].folder, suggestions[i].confidence, suggestions[i].is_new>>]

\* C6: for every malformed model response the suggestion call returns the
\* result of the keyword classifier for the same preview text and folder
\* set: the same folders with the same confidences in the same order.
C6_MalformedFallsBack ==
    (Returned /\ Malformed(llm_reply))
        => Choices(result) = Choices(KeywordClassifierResult)

-----------------------------------------------------------------------------
(* Properties of confirm_move, checked under SpecLifecycle                 *)

\* the file has an entry in the pending registry; SO keeps none and lists
\* the files of the inbox whose names do not start with a dot
IsPending(filename) ==
    IF impl = "DP" THEN filename \in DOMAIN pending_files
    ELSE filename \in DOMAIN inbox /\ filename[1] # "."

\* a confirmation without side effects
NoSideEffects ==
    UNCHANGED <<inbox, dirs, files, pending_files, learning_data, learning_file>>

\* a confirmation of filename for an existing (not new) folder
ConfirmExisting(filename, folder, io) ==
    \/ DP_api_move_file(filename, folder, io)
    \/ SO_api_move(filename, [is_new |-> FALSE, marker |-> FALSE, path |-> folder], io)
    \/ SO_move(filename, folder, io)

\* a confirmation of filename for a new folder_path
ConfirmNew(filename, folder_path, io) ==
    \/ DP_api_move_file(filename, folder_path, io)
    \/ SO_api_move(filename, [is_new |-> TRUE, marker |-> FALSE, path |-> folder_path], io)

\* C7: a confirmation for a file name that is not in the pending registry is
\* rejected with an error and changes nothing: no directory is created, no
\* file is moved, registry and learning store stay as they are.
C7_UnknownFileRejected ==
    [][\A filename \in Filenames, folder \in TargetFolders :
          (~IsPending(filename)
             /\ (ConfirmExisting(filename, folder, "ok") \/ ConfirmNew(filename, folder, "ok")))
          => (~response'.success /\ NoSideEffects)]_vars

\* C8: a confirmation for a pending file and a folder that is not new and
\* not in the target folder set is rejected with an error and has no side
\* effects.
C8_UnknownFolderRejected ==
    [][\A filename \in Filenames, folder \in TargetFolders :
          (IsPending(filename) /\ ~DP_is_target(folder)
             /\ ConfirmExisting(filename, folder, "ok"))
          => (~response'.success /\ NoSideEffects)]_vars

NestedPath == <<"Travel", "Flights">>

\* C9: a confirmation for a pending file with is_new and the nested
\* folder_path parent/child, neither existing and parent no target folder,
\* succeeds: both directories exist afterwards, the file is in
\* ablage/parent/child and no longer in the inbox.
C9_NestedNewFolder ==
    [][\A filename \in Filenames :
          (IsPending(filename) /\ filename \in DOMAIN inbox
             /\ <<"Travel">> \notin dirs /\ "Travel" \notin Range(target_folders)
             /\ ConfirmNew(filename, NestedPath, "ok"))
          => /\ response'.success
             /\ {<<"Travel">>, NestedPath} \subseteq dirs'
             /\ <<NestedPath, filename>> \in DOMAIN files'
             /\ files'[<<NestedPath, filename>>] = inbox[filename]
             /\ filename \notin DOMAIN inbox']_vars

\* C10: when the relocation step of a confirmation fails in DP, the caller
\* gets an explicit error and the pending entry of the file name is still in
\* the registry, unchanged, so the confirmation can be tried again.
C10_MoveFailureKeepsEntry ==
    [][\A filename \in Filenames, folder \in TargetFolders,
          io \in {"ok", "move_fails", "save_fails"} :
          (/\ filename \in DOMAIN pending_files
           /\ DP_is_target(folder)
           /\ (io = "move_fails" \/ pending_files[filename].path \notin DOMAIN inbox)
           /\ DP_api_move_file(filename, folder, io))
          => /\ ~response'.success
             /\ response'.status = 500
             /\ filename \in DOMAIN pending_files'
             /\ pending_files'[filename] = pending_files[filename]]_vars

\* C10 witness: the last confirmation failed in shutil.move although every
\* pending file is in the inbox, and the registry still holds an entry
C10_Witness ==
    /\ impl = "DP"
    /\ response.status = 500 /\ response.error = "move"
    /\ pending_files # EmptyDict
    /\ \A filename \in DOMAIN pending_files :
          pending_files[filename].path \in DOMAIN inbox

-----------------------------------------------------------------------------
(* Properties of moves into one folder, checked under SpecMoves            *)

\* the name move_file gives a file of this name in this second when the
\* plain name is taken
StampedName(filename) ==
    IF impl = "DP" THEN DP_stamped_name(filename, now) ELSE SO_stamped_name(filename, now)

\* C11: two different files of the same name moved into the same folder in
\* the same second leave two distinct destination files, and the second move
\* does not overwrite what the first one put there.  The first of the two
\* moves is the one whose destination carries the stamp of this second.
C11_SameSecondCollision ==
    [][\A filename \in Filenames :
          LET first == <<<<"Bank">>, StampedName(filename)>>
          IN (/\ first \in DOMAIN files
              /\ filename \in DOMAIN inbox
              /\ ConfirmExisting(filename, <<"Bank">>, "ok")
              /\ response'.success)
             => /\ first \in DOMAIN files'
                /\ files'[first] = files[first]
                /\ Cardinality(DOMAIN files') = Cardinality(DOMAIN files) + 1]_vars

-----------------------------------------------------------------------------
(* Properties of the learning store, checked under SpecLearning            *)

\* the decisions recorded so far: the k-th one is taken in second k
Calls == now - 1

\* C12: after n decisions the log holds exactly the latest min(n, 100) of
\* them in the order of the calls; after 101 calls it has 100 entries and
\* the first decision is gone.  Said of the n-th call: the log then has
\* min(n, 100) entries, ends with the decision of this call, keeps before it
\* the latest entries it had, in their order, and its i-th entry from the end
\* is the decision of call n - i + 1.
C12_LogHoldsLatest ==
    [][\A filename \in Filenames, chosen_folder \in DecisionFolders,
          io \in {"ok", "save_fails"} :
          RecordDecision(filename, chosen_folder, io) =>
              LET before == learning_data.decisions
                  after == learning_data'.decisions
              IN /\ Len(after) = Min(now, 100)
                 /\ after[Len(after)] = [timestamp |-> now, filename |-> filename,
                                          folder |-> chosen_folder]
                 /\ \A i \in 1..(Len(after) - 1) :
                       after[i] = before[Len(before) - Len(after) + 1 + i]
                 /\ \A i \in 1..Len(after) :
                       after[i].timestamp = now - Len(after) + i]_vars

\* C12 witness: 101 decisions were recorded, the log has 100 entries and
\* starts with the second decision
C12_Witness ==
    /\ impl = "DP"
    /\ Calls = 101
    /\ Len(learning_data.decisions) = 100
    /\ learning_data.decisions[1].timestamp = 2

\* the (folder, token) pairs of a keyword index
IndexPairs(folder_keywords) ==
    UNION {{<<folder, token>> : token \in Range(folder_keywords[folder])} :
              folder \in DOMAIN folder_keywords}

\* C13: the keyword index only grows: a (folder, token) pair of the index is
\* in the index after every further decision, also when the decision that
\* brought it in has left the log.
C13_IndexOnlyGrows ==
    [][IndexPairs(learning_data.folder_keywords)
           \subseteq IndexPairs(learning_data'.folder_keywords)]_vars

\* C13 witness: the log is full and the index holds a token for a folder
\* that no decision of the log accounts for
C13_Witness ==
    /\ impl = "DP"
    /\ Len(learning_data.decisions) = 100
    /\ \E pair \in IndexPairs(learning_data.folder_keywords) :
          \A i \in 1..Len(learning_data.decisions) :
              ~(/\ learning_data.decisions[i].folder = pair[1]
                /\ pair[2] \in Range(FilenameKeywords(learning_data.decisions[i].filename)))


\* what holds after a confirmation of filename for folder that succeeded
Moved(filename, folder) ==
    /\ filename \notin DOMAIN inbox'
    /\ response'.new_path \in DOMAIN files'
    /\ response'.new_path[1] = folder
    /\ files'[response'.new_path] = inbox[filename]
    /\ ~IsPending(filename)'

Recorded(filename, folder) ==
    /\ learning_data'.decisions # <<>>
    /\ learning_data'.decisions[Len(learning_data'.decisions)].filename = filename
    /\ learning_data'.decisions[Len(learning_data'.decisions)].folder = folder[1]

\* C20: after a confirmation of a file for a folder that succeeded, the file
\* is no longer in the inbox, a file with its content is under the target
\* folder, the file has no entry in the pending registry, and the last
\* record of the decision log names the file and the folder
C20_AfterConfirmedMove ==
    [][\A filename \in Filenames, folder \in TargetFolders :
          (/\ filename \in DOMAIN inbox
           /\ \E io \in {"ok", "move_fails", "save_fails"} :
                 ConfirmExisting(filename, folder, io) \/ ConfirmNew(filename, folder, io)
           /\ response'.success)
          => Moved(filename, folder) /\ Recorded(filename, folder)]_vars

-----------------------------------------------------------------------------
(* Properties of the listing, checked under SpecListing                    *)

\* C14: a listing of the pending files that follows another one, with no
\* arrival and no confirmation between the two, shows the same file names,
\* previews and suggestions as the one before it, whatever the completion
\* service replies while either is built
C14_ListingIdempotent ==
    [][(listing.fresh /\ listing'.fresh) => listing'.files = listing.files]_vars


-----------------------------------------------------------------------------
(* The keyword fallback and the quality gate, checked under SpecSuggest    *)
(* and SpecGate                                                            *)

\* the keyword table, the cap and the step of the service that answered
KeywordTable == IF impl = "DP" THEN DP_keywords ELSE SO_keywords

KeywordCap == IF impl = "DP" THEN 70 ELSE 80

KeywordStep == IF impl = "DP" THEN 20 ELSE 30

\* the folders of the table that are available and have hits in the text
ScoringFolders == Scores(KeywordTable, target_folders, Lower(text_content))

\* C15: when the completion service is unreachable and exactly one available
\* folder of the keyword table has hits in the text, the returned list starts
\* with that folder at confidence min(cap, hits * step), and the folder
\* Sonstiges, when it is available, is in the list at confidence 0.1
C15_SingleKeywordFolder ==
    (Returned /\ llm_reply.kind = "unreachable" /\ Len(ScoringFolders) = 1)
    => /\ result # <<>>
       /\ result[1].folder = ScoringFolders[1].folder
       /\ ~result[1].is_new
       /\ result[1].confidence = Min(KeywordCap, ScoringFolders[1].score * KeywordStep)
       /\ "Sonstiges" \in Range(target_folders) \ {ScoringFolders[1].folder}
          => \E i \in 1..Len(result) :
                result[i].folder = "Sonstiges" /\ result[i].confidence = 10


\* the entries of the returned list that reach the threshold
Reaching(threshold) == {i \in 1..Len(result) : result[i].confidence >= threshold}

\* the returned list comes from the reply of the completion service
FromModel == \E i \in 1..Len(result) : result[i].reason = "llm"

\* C19: SO returns suggestions for existing folders only when at least two
\* of them reach the threshold, 0.6 for the suggestions of the completion
\* service and 0.5 for those of the keyword table; in every other case the
\* list is the one of the folder-creation step and each of its entries is
\* flagged is_new
C19_QualityGate ==
    (impl = "SO" /\ Returned)
    => \/ /\ \A i \in 1..Len(result) : ~result[i].is_new
          /\ Cardinality(Reaching(IF FromModel THEN 60 ELSE 50)) >= 2
          /\ llm_reply2 = NoReply
       \/ /\ \A i \in 1..Len(result) : result[i].is_new
          /\ result = SO_get_folder_creation_suggestions(target_folders,
                          text_content, llm_reply2)
          /\ llm_reply2 # NoReply
          /\ ~GoodEnough(SO_fallback_list(target_folders, text_content), 50)
                \/ llm_reply.kind = "ok"

\* SO has returned three existing folders of which exactly two reach 0.6
C19_Witness ==
    /\ impl = "SO" /\ Returned
    /\ Len(result) = 3
    /\ \A i \in 1..3 : ~result[i].is_new
    /\ FromModel
    /\ Cardinality(Reaching(60)) = 2

-----------------------------------------------------------------------------
(* Properties of the watcher and request threads, checked under            *)
(* SpecThreads and SpecThreadsFair                                         *)

\* C16: a notification for a name that starts with '.' or '~' is discarded
\* at once: the size of such a file is never polled, and such a name never
\* gets an entry in the registry
C16_HiddenDiscarded ==
    /\ ~(IsTemporaryName(watcher.name) /\ watcher.polls > 0)
    /\ \A filename \in DOMAIN pending_files : ~IsTemporaryName(filename)

\* the part of C16 about the registry alone
HiddenNeverPending == \A filename \in DOMAIN pending_files : ~IsTemporaryName(filename)

\* the watcher is in process_new_file or behind wait_for_file_ready with a
\* file that is neither hidden nor a backup
Stabilized == watcher.pc = "ready" /\ ~IsTemporaryName(watcher.name)

C18_LaterEntrySurvives ==
    [][\A filename \in ThreadNames :
          (/\ request.pc = "deleting" /\ request.filename = filename
           /\ request'.pc = "idle"
           /\ filename \in DOMAIN inbox
           /\ filename \in DOMAIN pending_files
           /\ pending_files[filename].text_preview
                 = Preview(DP_extract_text(filename, inbox[filename], "read")))
          => filename \in DOMAIN pending_files']_vars


-----------------------------------------------------------------------------
(* Properties of the registry, checked under SpecRegistry and              *)
(* SpecRestartFair                                                         *)

\* the watcher assigns to pending_files
Inserts == watcher.pc = "previewed" /\ watcher' = WatcherIdle /\ pending_files' # EmptyDict

\* C21: the registry is keyed by the file name: when the watcher has
\* processed an arrival, the entry under its name holds the path, the preview
\* and the suggestions of this arrival, whether or not the name had an entry
\* before; every other entry is as it was, and no name is added besides
C21_EntryReplaced ==
    [][Inserts
       => /\ DOMAIN pending_files' = DOMAIN pending_files \cup {watcher.name}
          /\ \A other \in DOMAIN pending_files \ {watcher.name} :
                pending_files'[other] = pending_files[other]
          /\ pending_files'[watcher.name].path = watcher.name
          /\ pending_files'[watcher.name].text_preview = Preview(watcher.text_content)
          /\ \E reply \in WatchReplies :
                pending_files'[watcher.name].suggestions
                   = DP_get_folder_suggestions(target_folders, watcher.text_content, reply)]_vars

\* three arrivals were processed, the first under one name and the two after
\* it under another: the entry of the second arrival was replaced by the one
\* of the third while the entry of the first was in the registry
C21_Witness ==
    /\ arrived = 3 /\ events = <<>> /\ watcher = WatcherIdle
    /\ DOMAIN pending_files = {NameA, NameB}
    /\ inbox[NameB] = ContentOf(1)
    /\ inbox[NameA] = ContentOf(3)
    /\ pending_files[NameA].text_preview = Preview(ContentOf(3))
    /\ pending_files[NameB].text_preview = Preview(ContentOf(1))

\* C24: what a restart takes from the registry comes back: a file that is in
\* the inbox and is neither hidden nor a backup gets an entry in the registry
\* (unless it leaves the inbox), also when no creation event for it follows
C24_RediscoveredAfterRestart ==
    \A name \in Filenames :
       (name \in DOMAIN inbox /\ events = <<>> /\ watcher = WatcherIdle)
       ~> (name \in DOMAIN pending_files \/ name \notin DOMAIN inbox)


-----------------------------------------------------------------------------
(* Properties of wait_for_file_ready, checked under SpecWait and           *)
(* SpecWaitFair                                                            *)

\* wait_for_file_ready returns True
ReportsReady == watcher.pc = "stabilizing" /\ watcher'.pc = "ready"

\* wait_for_file_ready returns False
TimesOut == watcher.pc = "stabilizing" /\ watcher.polls >= MaxPolls /\ watcher' # watcher

\* C22: wait_for_file_ready reports a file as ready only when two
\* consecutive polls of its size have returned the same size, which is not
\* zero: the poll that ends the wait and the poll before it
C22_ReadyAfterTwoEqualPolls ==
    [][ReportsReady
       => /\ watcher.name \in DOMAIN inbox
          /\ Len(inbox[watcher.name]) > 0
          /\ watcher.prev_poll = Len(inbox[watcher.name])]_vars

\* C23: the wait always ends: the number of polls is bounded, whatever the
\* file does, and the wait is left; when it is left by the timeout the file is
\* dropped for this event: the watcher is back at waiting for the next
\* notification with no text extracted, and the registry is as it was
C23_WaitEnds ==
    /\ [](watcher.polls <= MaxPolls)
    /\ [][TimesOut => watcher' = WatcherIdle /\ UNCHANGED pending_files]_vars
    /\ (watcher.pc = "stabilizing" ~> watcher.pc # "stabilizing")

\* the only notification for a file was handled and the file, which is there
\* and not empty, has no entry: its wait ran into the timeout
C23_Witness ==
    /\ arrived = 1 /\ events = <<>> /\ watcher = WatcherIdle
    /\ NameA \in DOMAIN inbox
    /\ Len(inbox[NameA]) = MaxSize
    /\ pending_files = EmptyDict


-----------------------------------------------------------------------------
(* Properties of the suggestion engines: padding, the keyword classifier,  *)
(* new-folder proposals and item validation; checked under SpecSuggest     *)

\* the padding policy: Sonstiges at 0.1 when it is available and not listed,
\* then the available folders not listed, in the order of the folder set, at
\* 0.1, until three entries exist or no folder is left
RECURSIVE Padded(_, _)
Padded(tf, listed) ==
    IF Len(listed) >= 3 THEN listed
    ELSE LET left == SelectSeq(tf, LAMBDA f : \A i \in 1..Len(listed) : listed[i][1] # f)
         IN IF left = <<>> THEN listed
            ELSE IF "Sonstiges" \in Range(left)
            THEN Padded(tf, Append(listed, <<"Sonstiges", 10, FALSE>>))
            ELSE Padded(tf, Append(listed, <<left[1], 10, FALSE>>))

\* the reply of the completion service is an array
ParsedArray ==
    /\ llm_reply.kind = "ok"
    /\ JsonLoads_ok(StripFences(llm_reply.body))
    /\ JsonLoads(StripFences(llm_reply.body)).k = "arr"

\* the validated items of the reply, sorted
ModelItems ==
    SortByConfidence(DP_valid_suggestions(target_folders,
                         JsonLoads(StripFences(llm_reply.body)).items))

\* the entries the keyword table of DP scores, best two
KeywordItems == DP_top(SortByScore(Scores(DP_keywords, target_folders, Lower(text_content))))

\* C25: DP pads in the same way in both places: the list made from the
\* validated items of the reply and the list made from the keyword scores
\* are both filled up by the padding policy and cut to three
C25_SamePadding ==
    (Returned /\ impl = "DP" /\ target_folders # <<>>)
    => /\ ParsedArray
          => Choices(result) = Take(Padded(target_folders, Choices(ModelItems)), 3)
       /\ llm_reply.kind = "unreachable"
          => Choices(result) = Take(Padded(target_folders, Choices(KeywordItems)), 3)

\* the part of C25 about the keyword classifier alone
KeywordPadding ==
    (Returned /\ impl = "DP" /\ target_folders # <<>> /\ llm_reply.kind = "unreachable")
    => Choices(result) = Take(Padded(target_folders, Choices(KeywordItems)), 3)


\* the entries of the returned list that the keyword table scored, as pairs
\* of folder and confidence
KeywordScored ==
    LET scored == SelectSeq(result, LAMBDA s :
                      s.reason \in {"Schluesselwoerter gefunden", "Schluesselwoerter erkannt"})
    IN [i \in 1..Len(scored) |-> <<scored[i].folder, scored[i].confidence>>]

\* the available folders of the table with at least one hit, by descending
\* hit count, ties in the order of the table
RankedByHits ==
    LET ranked == SortByScore(ScoringFolders)
    IN [i \in 1..Len(ranked) |->
           <<ranked[i].folder, Min(KeywordCap, ranked[i].score * KeywordStep)>>]

\* C26: the keyword-scored entries of the list a keyword classifier returns
\* are the available folders of the keyword table that have at least one
\* hit in the text, every one of them, by descending hit count with ties in
\* table order
C26_KeywordEntries ==
    (Returned /\ (impl = "DP" \/ llm_reply2 = NoReply))
    => KeywordScored = RankedByHits

\* the part of C26 that holds: the keyword-scored entries are the first
\* two of that ranking
KeywordEntriesFirstTwo ==
    (Returned /\ (impl = "DP" \/ llm_reply2 = NoReply))
    => KeywordScored = Take(RankedByHits, 2)


\* the call went on to propose new folders
Proposed == impl = "SO" /\ Returned /\ llm_reply2 # NoReply

\* C27: the proposal of new folders returns three entries, each flagged
\* is_new and carrying a folder path, whatever the text and whatever the
\* completion service answers
C27_ThreeProposals ==
    Proposed
    => /\ Len(result) = 3
       /\ \A i \in 1..Len(result) : result[i].is_new /\ result[i].folder_path # ""

\* the part of C27 that holds: at most three entries, each flagged is_new
AtMostThreeProposals ==
    Proposed => Len(result) <= 3 /\ \A i \in 1..Len(result) : result[i].is_new

\* the static proposals alone: at least the two catch-all categories
StaticProposals ==
    (Proposed /\ llm_reply2.kind = "unreachable")
    => Len(result) \in {2, 3} /\ \A i \in 1..Len(result) : result[i].folder_path # ""


\* the items of the reply that the validation looks at: SO takes the first
\* three, DP all
Considered ==
    IF impl = "SO" THEN FirstItems(JsonLoads(StripFences(llm_reply.body)))
    ELSE JsonLoads(StripFences(llm_reply.body)).items

\* an item with a validation error: its folder is unknown, or its
\* confidence cannot be read as a number
Faulty(item) ==
    /\ item.dict /\ item.has_folder
    /\ item.folder \notin Range(target_folders) \/ item.conf.k = "badstr"

\* an item without a validation error
Sound(item) ==
    /\ item.dict /\ item.has_folder /\ item.folder \in Range(target_folders)
    /\ impl = "DP" => item.has_reason /\ item.conf.k # "absent"
    /\ item.conf.k = "absent" \/ Float_ok(item.conf)

\* the sound items as SO would list them
SoundEntries ==
    LET sound == SelectSeq(Considered, Sound)
    IN [i \in 1..Len(sound) |-> SO_valid_entry(sound[i])]

\* the reply is an array with a faulty item whose sound items, for SO, pass
\* the quality gate by themselves
FaultyBatch ==
    /\ Returned /\ target_folders # <<>> /\ ParsedArray
    /\ \E i \in 1..Len(Considered) : Faulty(Considered[i])
    /\ impl = "SO" => GoodEnough(SoundEntries, 60)

\* every sound item of the reply is in the returned list as an entry that
\* comes from the reply
SoundItemsListed ==
    \A i \in 1..Len(Considered) :
       Sound(Considered[i])
       => \E j \in 1..Len(result) :
             /\ result[j].folder = Considered[i].folder
             /\ result[j].reason = "llm"
             /\ ~result[j].is_new

\* C28: a faulty item of the reply costs that item only: the sound items of
\* the same reply are in the returned list, and the list is not the one of
\* the keyword fallback
C28_FaultyItemOnly == FaultyBatch => SoundItemsListed

\* the part of C28 that holds: DP
FaultyItemOnlyDP == (FaultyBatch /\ impl = "DP") => SoundItemsListed

\* SO with an unknown folder among numeric confidences
UnknownFolderOnlySO ==
    (FaultyBatch /\ impl = "SO"
       /\ \A i \in 1..Len(Considered) : Considered[i].conf.k # "badstr")
    => SoundItemsListed


-----------------------------------------------------------------------------
(* Properties of the folder tree under ablage, checked under SpecMoves and *)
(* SpecFolders                                                             *)

\* C29: no step writes to a path under ablage that holds a file: every
\* file that is stored under ablage stays there with the content it had
C29_FilesKeepContent ==
    [][\A path \in DOMAIN files :
          path \in DOMAIN files' /\ files'[path] = files[path]]_vars


\* C30: the cached list of target folders is the sorted list of the names
\* of the non-hidden directories directly under ablage, after every
\* create_folder and every move
C30_CacheMatchesTree == target_folders = GetTargetFolders(TopLevelNames(dirs))

\* the part of C30 that holds: create_folder and a move flagged as going to
\* a new folder leave the cached list equal to the tree
RefreshingCalls ==
    [][(\/ target_folders' # target_folders
        \/ \E filename \in Filenames, folder_data \in FolderData, io \in {"ok", "move_fails"} :
              folder_data.is_new /\ SO_api_move(filename, folder_data, io))
       => target_folders' = GetTargetFolders(TopLevelNames(dirs'))]_vars


-----------------------------------------------------------------------------
(* Properties of the registry after a confirmation, checked under          *)
(* SpecLifecycle                                                           *)

\* every entry of the registry is for a file that is in the inbox
EntriesInInbox(registry, box) ==
    \A filename \in DOMAIN registry : registry[filename].path \in DOMAIN box

\* C31: when api_move_file of DP has returned, with success or with an
\* error, a file name has a pending entry only if its source file is still
\* in the inbox; a confirmation that moved the file and then failed to save
\* the learning store leaves no entry for the moved file
C31_PendingOnlyInInbox ==
    [][\A filename \in Filenames, folder \in TargetFolders,
          io \in {"ok", "move_fails", "save_fails"} :
          DP_api_move_file(filename, folder, io)
          => EntriesInInbox(pending_files', inbox')]_vars

\* the part of C31 that holds: a return of api_move_file other than the
\* one after a failed save of the learning store leaves no entry without a
\* source file when there was none before
PendingOnlyInInboxSaved ==
    [][\A filename \in Filenames, folder \in TargetFolders,
          io \in {"ok", "move_fails", "save_fails"} :
          (/\ EntriesInInbox(pending_files, inbox)
           /\ DP_api_move_file(filename, folder, io)
           /\ response'.error # "save")
          => EntriesInInbox(pending_files', inbox')]_vars

=============================================================================
